---- MODULE Spec2Model ----
(***************************************************************************)
(* goagentbench: the transactional copy engine (internal/fsutil CopyToDir) *)
(* and the verification orchestrator (internal/verify Run), modelled as    *)
(* state machines over an explicit filesystem.                             *)
(*                                                                         *)
(* A path is a sequence of names; <<>> is the directory every relative     *)
(* path starts from.  The filesystem fs maps each existing path to its     *)
(* entry; a file's data is a sequence of blocks, so that a half-written    *)
(* file is a proper prefix of the complete one.                            *)
(***************************************************************************)
EXTENDS Integers, Sequences, FiniteSets, TLC

VARIABLES
    fs,        \* the filesystem: [existing paths -> entry]
    pc,        \* position of the running CopyToDir / undoChanges call
    args,      \* arguments of the CopyToDir call in progress
    txn,       \* copyTxn: createdDirs, createdFiles, overwritten
    mk,        \* trackedMkdirAll frame: dirs still to make, dirs made, return point
    walk,      \* filepath.Walk: source entries still to visit
    cf,        \* copyFile / createBackup frame
    un,        \* undoChanges / restoreFile frame
    closures,  \* reversal closures returned by commit(): captured lists + sync.Once
    status,    \* outcome of the last CopyToDir call: "none", "ok", "err"
    handle,    \* closure returned by the last call: 0 is the noop closure
    hist,      \* history: fs before the call, fs before the last invocation, ...
    cfg,       \* verify.Run: the scenario's verify section and the options
    gitOut,    \* verify.Run: what the three git queries print in the workspace
    vpc,       \* verify.Run: position ("off" when the engine runs on its own)
    vst,       \* verify.Run: locals (copy step, undos, problems, results, report)
    results,   \* the report files written under the results directory
    out,       \* what verify.Run returned
    vhist,     \* history: fs before verify.Run, calls and processes started
    wr,        \* writeReport: the reports in memory, the clone, the file written
    ra,        \* runAgent: position, locals, the files of the run, the calls made
    rcs,       \* RunCommandStreaming: child, pipes, reader tasks, buffer, console
    fn         \* a function of the verifier applied on its own: input and result

\* The variables of the callers of verify.Run and of what it calls.
xvars == <<wr, ra, rcs, fn>>

vvars == <<cfg, gitOut, vpc, vst, results, out, vhist, xvars>>
vars == <<fs, pc, args, txn, mk, walk, cf, un, closures, status, handle, hist,
          cfg, gitOut, vpc, vst, results, out, vhist, wr, ra, rcs, fn>>

\* Nothing runs.
Off == [pc |-> "off"]

---------------------------------------------------------------------------
(* Bounds and program constants *)

MaxBlocks == 2        \* blocks in a file written by io.Copy

MaxActions == 2       \* changes the agent makes to the workspace before the audit

DirMode == 493        \* 0o755, the mode CopyToDir and copyFile pass to trackedMkdirAll

---------------------------------------------------------------------------
(* Paths *)

Parent(p) == IF Len(p) = 0 THEN p ELSE SubSeq(p, 1, Len(p) - 1)

BaseName(p) == p[Len(p)]

JoinPath(d, rel) == d \o rel

IsUnder(d, p) == Len(d) < Len(p) /\ SubSeq(p, 1, Len(d)) = d

\* Lexical rank of the names, the order in which filepath.Walk reads a directory.
NameOrder == <<"b", "d", "e", "sub", "t">>

Rank(n) == CHOOSE i \in 1..Len(NameOrder) : NameOrder[i] = n

\* Names os.CreateTemp can produce for each pattern.
TempNames ==
    [copy   |-> <<".fsutil-copy-1", ".fsutil-copy-2">>,
     backup |-> <<".fsutil-backup-1", ".fsutil-backup-2", ".fsutil-backup-3">>,
     undo   |-> <<".fsutil-undo-1", ".fsutil-undo-2">>]

AllTempNames ==
    {TempNames.copy[i] : i \in DOMAIN TempNames.copy}
        \cup {TempNames.backup[i] : i \in DOMAIN TempNames.backup}
        \cup {TempNames.undo[i] : i \in DOMAIN TempNames.undo}

IsTemp(p) == Len(p) > 0 /\ BaseName(p) \in AllTempNames

---------------------------------------------------------------------------
(* The filesystem calls the code makes (package os) *)

DirEntry(mode) == [kind |-> "dir", data |-> <<>>, mode |-> mode]

FileEntry(data, mode) == [kind |-> "file", data |-> data, mode |-> mode]

IsDirAt(f, p) == p = <<>> \/ (p \in DOMAIN f /\ f[p].kind = "dir")

IsFileAt(f, p) == p \in DOMAIN f /\ f[p].kind = "file"

\* os.Stat: the kind of the entry, or the error.
Stat(f, p) ==
    IF p = <<>> THEN "dir"
    ELSE IF \E k \in 1..(Len(p) - 1) : IsFileAt(f, SubSeq(p, 1, k)) THEN "ENOTDIR"
    ELSE IF p \in DOMAIN f THEN f[p].kind
    ELSE "ENOENT"

Children(f, d) == {q \in DOMAIN f : Parent(q) = d /\ Len(q) = Len(d) + 1}

Put(f, p, e) == (p :> e) @@ f

Drop(f, p) == [q \in DOMAIN f \ {p} |-> f[q]]

\* os.Mkdir
MkdirOK(f, p) == Stat(f, p) = "ENOENT" /\ IsDirAt(f, Parent(p))

\* os.Remove: a file, or an empty directory.
RemoveOK(f, p) ==
    \/ IsFileAt(f, p)
    \/ (p \in DOMAIN f /\ f[p].kind = "dir" /\ Children(f, p) = {})

Remove(f, p) == IF RemoveOK(f, p) THEN Drop(f, p) ELSE f

\* os.Rename of a file onto a path that is absent or a file.
RenameOK(f, old, new) ==
    IsFileAt(f, old) /\ IsDirAt(f, Parent(new)) /\ Stat(f, new) \in {"file", "ENOENT"}

Rename(f, old, new) == Drop(Put(f, new, f[old]), old)

\* os.CreateTemp: a name of the pattern that is not in use in dir.
TempFree(f, dir, pattern) ==
    {i \in DOMAIN TempNames[pattern] : JoinPath(dir, <<TempNames[pattern][i]>>) \notin DOMAIN f}

CreateTempOK(f, dir, pattern) == IsDirAt(f, dir) /\ TempFree(f, dir, pattern) # {}

TempPath(f, dir, pattern) ==
    JoinPath(dir, <<TempNames[pattern][CHOOSE i \in TempFree(f, dir, pattern) :
                                           \A j \in TempFree(f, dir, pattern) : i <= j]>>)

\* An operation the environment can make fail (I/O error, permission, full disk).
Faults == BOOLEAN

---------------------------------------------------------------------------
(* trackedMkdirAll, filepath.Walk *)

RECURSIVE MissingDirs(_, _)
\* The first loop of trackedMkdirAll: walk up from the path until an existing
\* directory; the missing directories, deepest first, or the error.
MissingDirs(f, current) ==
    LET st == Stat(f, current) IN
    IF st = "dir" THEN [err |-> FALSE, missing |-> <<>>]
    ELSE IF st # "ENOENT" THEN [err |-> TRUE, missing |-> <<>>]
    ELSE LET up == MissingDirs(f, Parent(current)) IN
         [err |-> up.err, missing |-> <<current>> \o up.missing]

Reverse(s) == [i \in 1..Len(s) |-> s[Len(s) + 1 - i]]

RECURSIVE SortByName(_)
SortByName(S) ==
    IF S = {} THEN <<>>
    ELSE LET m == CHOOSE x \in S : \A y \in S : Rank(BaseName(x)) <= Rank(BaseName(y))
         IN <<m>> \o SortByName(S \ {m})

RECURSIVE WalkOrder(_, _)
RECURSIVE WalkAll(_, _)
\* filepath.Walk: the root, then each directory's entries in lexical order.
WalkOrder(f, p) ==
    <<p>> \o (IF IsDirAt(f, p) THEN WalkAll(f, SortByName(Children(f, p))) ELSE <<>>)

WalkAll(f, ps) ==
    IF ps = <<>> THEN <<>> ELSE WalkOrder(f, Head(ps)) \o WalkAll(f, Tail(ps))

---------------------------------------------------------------------------
(* Frames *)

EmptyTxn == [createdDirs |-> <<>>, createdFiles |-> <<>>, overwritten |-> <<>>]

NoArgs == [src |-> <<>>, dstDir |-> <<>>, overwrite |-> FALSE]

NoMk == [todo |-> <<>>, created |-> <<>>, mode |-> 0, ret |-> ""]

NoCf == [src |-> <<>>, dst |-> <<>>, mode |-> 0, tmp |-> <<>>, destExists |-> FALSE,
         destMode |-> 0, off |-> 0, backup |-> <<>>]

NoUn == [over |-> <<>>, files |-> <<>>, dirs |-> <<>>, i |-> 0, tmp |-> <<>>,
         off |-> 0, ret |-> "", log |-> <<>>]

NewCf(src, dst, mode) == [NoCf EXCEPT !.src = src, !.dst = dst, !.mode = mode]

RollbackLists_NoDirs(t) ==
    [over |-> t.overwritten, files |-> t.createdFiles, dirs |-> <<>>]

\* rollback(): the lists undoChanges is called with.
RollbackLists(t) ==
    [over |-> t.overwritten, files |-> t.createdFiles, dirs |-> t.createdDirs]

CommitLists_NoDirs(t) ==
    [over |-> t.overwritten, files |-> t.createdFiles, dirs |-> <<>>, once |-> FALSE]

\* commit(): the copies of the lists the closure captures.
CommitLists(t) ==
    [over |-> t.overwritten, files |-> t.createdFiles, dirs |-> t.createdDirs,
     once |-> FALSE]

NewUn(l, ret) ==
    [NoUn EXCEPT !.over = l.over, !.files = l.files, !.dirs = l.dirs,
                 !.i = Len(l.over), !.ret = ret]

ReturnError_Nil ==
    /\ status' = "ok"
    /\ handle' = 0
    /\ pc' = "idle"
    /\ txn' = EmptyTxn
    /\ mk' = NoMk /\ walk' = <<>> /\ cf' = NoCf /\ un' = NoUn

\* "return noop, err" of CopyToDir.
ReturnError ==
    /\ status' = "err"
    /\ handle' = 0
    /\ pc' = "idle"
    /\ txn' = EmptyTxn
    /\ mk' = NoMk /\ walk' = <<>> /\ cf' = NoCf /\ un' = NoUn

\* "txn.rollback(); return noop, err": undoChanges runs first.
StartRollback ==
    /\ pc' = "undo_over"
    /\ un' = NewUn(RollbackLists(txn), "rollback")
    /\ mk' = NoMk /\ walk' = <<>> /\ cf' = NoCf
    /\ UNCHANGED <<txn, status, handle>>

---------------------------------------------------------------------------
(* CopyToDir *)

\* CopyToDir entry: os.Stat(src), then the scan of trackedMkdirAll(dstDir, 0o755).
CopyToDirCall(src, dstDir, overwrite) ==
    /\ pc = "idle"
    /\ status = "none"
    /\ hist' = [hist EXCEPT !.pre = fs, !.lastop = "copy"]
    /\ args' = [src |-> src, dstDir |-> dstDir, overwrite |-> overwrite]
    /\ UNCHANGED <<fs, closures>>
    /\ IF Stat(fs, src) \notin {"file", "dir"}
       THEN ReturnError
       ELSE LET m == MissingDirs(fs, dstDir) IN
            IF m.err
            THEN ReturnError
            ELSE /\ mk' = [todo |-> Reverse(m.missing), created |-> <<>>,
                           mode |-> DirMode, ret |-> "dstcheck"]
                 /\ pc' = "mkdir"
                 /\ txn' = EmptyTxn
                 /\ UNCHANGED <<walk, cf, un, status, handle>>

AppendCreated_InFront(dirs, created) == created \o dirs

\* "t.createdDirs = append(t.createdDirs, created...)"
AppendCreated(dirs, created) == dirs \o created

\* The second loop of trackedMkdirAll, one os.Mkdir per step, and the return
\* to the caller, which appends the created directories to txn.createdDirs.
MkdirStep ==
    /\ pc = "mkdir"
    /\ UNCHANGED vvars
    /\ UNCHANGED <<args, closures, hist>>
    /\ IF mk.todo = <<>>
       THEN /\ txn' = [txn EXCEPT !.createdDirs = AppendCreated(@, mk.created)]
            /\ pc' = mk.ret
            /\ mk' = NoMk
            /\ UNCHANGED <<fs, walk, cf, un, status, handle>>
       ELSE \E fail \in Faults :
            LET dir == Head(mk.todo) IN
            IF ~fail /\ MkdirOK(fs, dir)
            THEN /\ fs' = Put(fs, dir, DirEntry(mk.mode))
                 /\ mk' = [mk EXCEPT !.todo = Tail(@), !.created = Append(@, dir)]
                 /\ UNCHANGED <<pc, txn, walk, cf, un, status, handle>>
            ELSE IF ~fail /\ dir \in DOMAIN fs
            THEN /\ mk' = [mk EXCEPT !.todo = Tail(@)]
                 /\ UNCHANGED <<fs, pc, txn, walk, cf, un, status, handle>>
            ELSE \* os.Mkdir failed: remove what this call made, return the error
                 /\ fs' = [q \in DOMAIN fs \ {mk.created[j] : j \in DOMAIN mk.created}
                             |-> fs[q]]
                 /\ IF mk.ret = "dstcheck" THEN ReturnError ELSE StartRollback

\* CopyToDir after trackedMkdirAll: os.Stat(dstDir), IsDir, then the dispatch
\* on srcInfo.IsDir().
DstCheck ==
    /\ pc = "dstcheck"
    /\ UNCHANGED vvars
    /\ UNCHANGED <<fs, args, closures, hist>>
    /\ \E fail \in Faults :
       IF fail \/ Stat(fs, args.dstDir) # "dir"
       THEN StartRollback
       ELSE /\ IF IsDirAt(fs, args.src)
               THEN /\ pc' = "walk"
                    /\ walk' = WalkOrder(fs, args.src)
                    /\ cf' = NoCf
               ELSE /\ pc' = "cf_ensure"
                    /\ walk' = <<>>
                    /\ cf' = NewCf(args.src,
                                   JoinPath(args.dstDir, <<BaseName(args.src)>>),
                                   fs[args.src].mode)
            /\ UNCHANGED <<txn, mk, un, status, handle>>

\* One callback of filepath.Walk in copyDirContents; when the walk is over,
\* CopyToDir returns txn.commit().
WalkStep ==
    /\ pc = "walk"
    /\ UNCHANGED vvars
    /\ UNCHANGED <<fs, args, hist>>
    /\ IF walk = <<>>
       THEN /\ closures' = Append(closures, CommitLists(txn))
            /\ handle' = Len(closures) + 1
            /\ status' = "ok"
            /\ pc' = "idle"
            /\ UNCHANGED <<txn, mk, walk, cf, un>>
       ELSE /\ UNCHANGED closures
            /\ \E fail \in Faults :
               LET path   == Head(walk)
                   rel    == SubSeq(path, Len(args.src) + 1, Len(path))
                   target == JoinPath(args.dstDir, rel)
               IN
               IF fail                                   \* walkErr != nil
               THEN StartRollback
               ELSE IF rel = <<>>                        \* rel == "."
               THEN /\ walk' = Tail(walk)
                    /\ UNCHANGED <<pc, txn, mk, cf, un, status, handle>>
               ELSE IF IsDirAt(fs, path)                 \* ensureDir(target, info.Mode())
               THEN LET m == MissingDirs(fs, target) IN
                    IF m.err
                    THEN StartRollback
                    ELSE /\ mk' = [todo |-> Reverse(m.missing), created |-> <<>>,
                                   mode |-> fs[path].mode, ret |-> "walk"]
                         /\ pc' = "mkdir"
                         /\ walk' = Tail(walk)
                         /\ UNCHANGED <<txn, cf, un, status, handle>>
               ELSE /\ cf' = NewCf(path, target, fs[path].mode)
                    /\ pc' = "cf_ensure"
                    /\ walk' = Tail(walk)
                    /\ UNCHANGED <<txn, mk, un, status, handle>>

---------------------------------------------------------------------------
(* copyTxn.copyFile and createBackup *)

\* The deferred function of copyFile on an error return: os.Remove(tmpName).
AbortCopy(f) == IF cf.tmp = <<>> THEN f ELSE Remove(f, cf.tmp)

\* copyFile: ensureDir(filepath.Dir(dst), 0o755).
CfEnsure ==
    /\ pc = "cf_ensure"
    /\ UNCHANGED vvars
    /\ UNCHANGED <<fs, args, closures, hist>>
    /\ LET m == MissingDirs(fs, Parent(cf.dst)) IN
       IF m.err
       THEN StartRollback
       ELSE /\ mk' = [todo |-> Reverse(m.missing), created |-> <<>>,
                      mode |-> DirMode, ret |-> "cf_stat"]
            /\ pc' = "mkdir"
            /\ UNCHANGED <<txn, walk, cf, un, status, handle>>

Refused_IgnoreOverwrite(st, overwrite) == st \notin {"file", "ENOENT"}

\* The overwrite decision of copyFile: TRUE when copying onto dst is refused.
Refused(st, overwrite) ==
    \/ st \notin {"file", "ENOENT"}          \* a directory, or a Stat error
    \/ (st = "file" /\ ~overwrite)

\* copyFile: os.Stat(dst), the destination checks, os.CreateTemp.
CfStat ==
    /\ pc = "cf_stat"
    /\ UNCHANGED vvars
    /\ UNCHANGED <<args, closures, hist>>
    /\ \E fail \in Faults :
       LET st  == Stat(fs, cf.dst)
           dir == Parent(cf.dst)
       IN
       IF Refused(st, args.overwrite) \/ fail \/ ~CreateTempOK(fs, dir, "copy")
       THEN /\ UNCHANGED fs
            /\ StartRollback
       ELSE LET tmp == TempPath(fs, dir, "copy") IN
            /\ fs' = Put(fs, tmp, FileEntry(<<>>, 384))
            /\ cf' = [cf EXCEPT !.tmp = tmp, !.destExists = (st = "file"),
                                !.destMode = IF st = "file" THEN fs[cf.dst].mode ELSE 0]
            /\ pc' = "cf_chmod"
            /\ UNCHANGED <<txn, mk, walk, un, status, handle>>

\* copyFile: tmpFile.Chmod(mode), os.Open(src).
CfChmod ==
    /\ pc = "cf_chmod"
    /\ UNCHANGED vvars
    /\ UNCHANGED <<args, closures, hist>>
    /\ \E fail \in Faults :
       IF fail
       THEN /\ fs' = AbortCopy(fs)
            /\ StartRollback
       ELSE /\ fs' = [fs EXCEPT ![cf.tmp].mode = cf.mode]
            /\ pc' = "cf_copy"
            /\ UNCHANGED <<txn, mk, walk, cf, un, status, handle>>

CopyTarget_InPlace(c) == IF c.destExists THEN c.dst ELSE c.tmp

\* The path io.Copy writes the source's blocks to.
CopyTarget(c) == c.tmp

RecordCreated_Skipped(t, c) == t

\* Where copyFile notes a destination that did not exist, relative to the rename.
RecordCreated(t, c) == [t EXCEPT !.createdFiles = Append(@, c.dst)]

\* copyFile: io.Copy(tmpFile, srcFile) block by block, then tmpFile.Close();
\* a destination that did not exist is appended to txn.createdFiles.
CfCopy ==
    /\ pc = "cf_copy"
    /\ UNCHANGED vvars
    /\ UNCHANGED <<args, closures, hist>>
    /\ \E fail \in Faults :
       IF fail
       THEN /\ fs' = AbortCopy(fs)
            /\ StartRollback
       ELSE IF cf.off < Len(fs[cf.src].data)
       THEN /\ fs' = [fs EXCEPT ![CopyTarget(cf)].data =
                                    Append(@, fs[cf.src].data[cf.off + 1])]
            /\ cf' = [cf EXCEPT !.off = @ + 1]
            /\ UNCHANGED <<pc, txn, mk, walk, un, status, handle>>
       ELSE /\ UNCHANGED fs
            /\ cf' = [cf EXCEPT !.off = 0]
            /\ IF cf.destExists
               THEN /\ pc' = "bk_create"
                    /\ UNCHANGED txn
               ELSE /\ pc' = "cf_rename"
                    /\ txn' = RecordCreated(txn, cf)
            /\ UNCHANGED <<mk, walk, un, status, handle>>

\* createBackup: os.CreateTemp(dir, ".fsutil-backup-*"), os.Open(path).
BkCreate ==
    /\ pc = "bk_create"
    /\ UNCHANGED vvars
    /\ UNCHANGED <<args, closures, hist>>
    /\ \E fail \in Faults :
       LET dir == Parent(cf.dst) IN
       IF fail \/ ~CreateTempOK(fs, dir, "backup") \/ ~IsFileAt(fs, cf.dst)
       THEN /\ fs' = AbortCopy(fs)
            /\ StartRollback
       ELSE LET b == TempPath(fs, dir, "backup") IN
            /\ fs' = Put(fs, b, FileEntry(<<>>, 384))
            /\ cf' = [cf EXCEPT !.backup = b, !.off = 0]
            /\ pc' = "bk_copy"
            /\ UNCHANGED <<txn, mk, walk, un, status, handle>>

\* The entry copyFile appends to txn.overwritten once createBackup returned.
OverwrittenEntry(c) == [path |-> c.dst, backup |-> c.backup, mode |-> c.destMode]

\* createBackup: io.Copy(tmpFile, src) block by block, tmpFile.Close(); then
\* copyFile appends the entry to txn.overwritten.
BkCopy ==
    /\ pc = "bk_copy"
    /\ UNCHANGED vvars
    /\ UNCHANGED <<args, closures, hist>>
    /\ \E fail \in Faults :
       IF fail
       THEN /\ fs' = Remove(AbortCopy(fs), cf.backup)
            /\ StartRollback
       ELSE IF cf.off < Len(fs[cf.dst].data)
       THEN /\ fs' = [fs EXCEPT ![cf.backup].data = Append(@, fs[cf.dst].data[cf.off + 1])]
            /\ cf' = [cf EXCEPT !.off = @ + 1]
            /\ UNCHANGED <<pc, txn, mk, walk, un, status, handle>>
       ELSE /\ UNCHANGED <<fs, cf>>
            /\ txn' = [txn EXCEPT !.overwritten = Append(@, OverwrittenEntry(cf))]
            /\ pc' = "cf_rename"
            /\ UNCHANGED <<mk, walk, un, status, handle>>

\* copyFile: os.Rename(tmpName, dst).
CfRename ==
    /\ pc = "cf_rename"
    /\ UNCHANGED vvars
    /\ UNCHANGED <<args, closures, hist>>
    /\ \E fail \in Faults :
       IF fail \/ ~RenameOK(fs, cf.tmp, cf.dst)
       THEN /\ fs' = AbortCopy(fs)
            /\ StartRollback
       ELSE /\ fs' = Rename(fs, cf.tmp, cf.dst)
            /\ pc' = "walk"
            /\ cf' = NoCf
            /\ UNCHANGED <<txn, mk, walk, un, status, handle>>

---------------------------------------------------------------------------
(* undoChanges and restoreFile *)
(* The filesystem calls of a reversal fail only when the filesystem refuses *)
(* them (a missing file, a directory that is not empty); every error is     *)
(* dropped, as in the code.                                                 *)

\* The order in which undoChanges goes through its three lists.
UndoPhases == <<"undo_over", "undo_files", "undo_dirs">>

\* undoChanges returns: rollback() clears the transaction and CopyToDir
\* returns the error; a closure returns to its caller.
UndoReturn ==
    /\ un' = NoUn
    /\ pc' = "idle"
    /\ IF un.ret = "rollback"
       THEN /\ status' = "err"
            /\ handle' = 0
            /\ txn' = EmptyTxn
            /\ hist' = [hist EXCEPT !.rb = [over |-> Len(un.over), files |-> Len(un.files),
                                            dirs |-> Len(un.dirs)]]
       ELSE UNCHANGED <<status, handle, txn, hist>>

\* Loop over overwritten, last entry first; restoreFile starts with
\* os.CreateTemp(dir, ".fsutil-undo-*") and os.Open(entry.backup).
UndoOver ==
    /\ pc = "undo_over"
    /\ UNCHANGED vvars
    /\ UNCHANGED <<args, txn, mk, walk, cf, closures, status, handle, hist>>
    /\ IF un.i = 0
       THEN /\ pc' = UndoPhases[2]
            /\ un' = [un EXCEPT !.i = Len(un.files)]
            /\ UNCHANGED fs
       ELSE LET entry == un.over[un.i]
                dir   == Parent(entry.path)
            IN
            IF CreateTempOK(fs, dir, "undo") /\ IsFileAt(fs, entry.backup)
            THEN LET tmp == TempPath(fs, dir, "undo") IN
                 /\ fs' = Put(fs, tmp, FileEntry(<<>>, 384))
                 /\ un' = [un EXCEPT !.tmp = tmp, !.off = 0,
                                     !.log = Append(@, <<"restore", un.i>>)]
                 /\ pc' = "rs_copy"
            ELSE /\ pc' = "undo_backup_rm"
                 /\ un' = [un EXCEPT !.log = Append(@, <<"restore", un.i>>)]
                 /\ UNCHANGED fs

RestoreMode_Default(entry) == 384

\* restoreFile: the mode tmpFile.Chmod gives the restored file.
RestoreMode(entry) == entry.mode

\* restoreFile: io.Copy(tmpFile, srcFile) block by block, then
\* tmpFile.Chmod(entry.mode) and tmpFile.Close().
RsCopy ==
    /\ pc = "rs_copy"
    /\ UNCHANGED vvars
    /\ UNCHANGED <<args, txn, mk, walk, cf, closures, status, handle, hist>>
    /\ LET entry == un.over[un.i] IN
       IF un.off < Len(fs[entry.backup].data)
       THEN /\ fs' = [fs EXCEPT ![un.tmp].data = Append(@, fs[entry.backup].data[un.off + 1])]
            /\ un' = [un EXCEPT !.off = @ + 1]
            /\ UNCHANGED pc
       ELSE /\ fs' = [fs EXCEPT ![un.tmp].mode = RestoreMode(entry)]
            /\ pc' = "rs_rename"
            /\ UNCHANGED un

\* restoreFile: os.Rename(tmpName, entry.path); the deferred os.Remove(tmpName)
\* when the rename failed.
RsRename ==
    /\ pc = "rs_rename"
    /\ UNCHANGED vvars
    /\ UNCHANGED <<args, txn, mk, walk, cf, closures, status, handle, hist>>
    /\ LET entry == un.over[un.i] IN
       /\ fs' = IF RenameOK(fs, un.tmp, entry.path)
                THEN Rename(fs, un.tmp, entry.path)
                ELSE Remove(fs, un.tmp)
       /\ pc' = "undo_backup_rm"
       /\ un' = [un EXCEPT !.tmp = <<>>, !.off = 0]

\* undoChanges: os.Remove(overwritten[i].backup).
UndoBackupRm ==
    /\ pc = "undo_backup_rm"
    /\ UNCHANGED vvars
    /\ UNCHANGED <<args, txn, mk, walk, cf, closures, status, handle, hist>>
    /\ fs' = Remove(fs, un.over[un.i].backup)
    /\ un' = [un EXCEPT !.i = @ - 1, !.log = Append(@, <<"backup", un.i>>)]
    /\ pc' = UndoPhases[1]

\* undoChanges: os.Remove(createdFiles[i]), last first.
UndoFiles ==
    /\ pc = "undo_files"
    /\ UNCHANGED vvars
    /\ UNCHANGED <<args, txn, mk, walk, cf, closures, status, handle, hist>>
    /\ IF un.i = 0
       THEN /\ pc' = UndoPhases[3]
            /\ un' = [un EXCEPT !.i = Len(un.dirs)]
            /\ UNCHANGED fs
       ELSE /\ fs' = Remove(fs, un.files[un.i])
            /\ un' = [un EXCEPT !.i = @ - 1, !.log = Append(@, <<"file", un.i>>)]
            /\ UNCHANGED pc

\* undoChanges: os.Remove(createdDirs[i]), last first.
UndoDirs ==
    /\ pc = "undo_dirs"
    /\ UNCHANGED vvars
    /\ UNCHANGED <<args, mk, walk, cf, closures>>
    /\ IF un.i = 0
       THEN /\ UndoReturn
            /\ UNCHANGED fs
       ELSE /\ fs' = Remove(fs, un.dirs[un.i])
            /\ un' = [un EXCEPT !.i = @ - 1, !.log = Append(@, <<"dir", un.i>>)]
            /\ UNCHANGED <<pc, txn, status, handle, hist>>

---------------------------------------------------------------------------
(* The reversal closure *)

OnceDone_Never(c) == FALSE

\* sync.Once: has the closure's body already run?
OnceDone(c) == c.once

\* A call of closure k: 0 is noop := func() {}; the others run
\* once.Do(undoChanges(createdFiles, createdDirs, overwritten)).
Invoke(k) ==
    IF k = 0 \/ OnceDone(closures[k])
    THEN UNCHANGED <<pc, un, closures>>
    ELSE /\ closures' = [closures EXCEPT ![k].once = TRUE]
         /\ un' = NewUn(closures[k], "closure")
         /\ pc' = UndoPhases[1]

\* The caller invokes the closure the last CopyToDir call returned.
InvokeUndo ==
    /\ pc = "idle"
    /\ vpc = "off"
    /\ status # "none"
    /\ UNCHANGED <<fs, args, txn, mk, walk, cf, status, handle>>
    /\ UNCHANGED vvars
    /\ hist' = IF handle = 0
               THEN [hist EXCEPT !.lastop = "noop", !.snap = fs]
               ELSE [hist EXCEPT !.lastop = IF hist.invoked THEN "reundo" ELSE "undo",
                                 !.snap = fs, !.invoked = TRUE]
    /\ Invoke(handle)

---------------------------------------------------------------------------
(* The environment *)

Blocks(tag) == [i \in 1..MaxBlocks |-> tag]

Tree(S) == [p \in {x[1] : x \in S} |-> (CHOOSE x \in S : x[1] = p)[2]]

\* The scenario directory the copies come from.
SourceTree ==
    {<< <<"s">>, DirEntry(493) >>,
     << <<"s", "t">>, FileEntry(Blocks("new-t"), 420) >>,
     << <<"s", "sub">>, DirEntry(448) >>,
     << <<"s", "sub", "b">>, FileEntry(Blocks("new-b"), 493) >>}

W == << <<"w">>, DirEntry(493) >>

\* The destination trees a call can find.
Workspaces ==
    {{W},
     {W, << <<"w", "t">>, FileEntry(Blocks("old-t"), 292) >>},
     {W, << <<"w", "t">>, FileEntry(Blocks("old-t"), 292) >>,
         << <<"w", "sub">>, DirEntry(493) >>,
         << <<"w", "sub", "b">>, FileEntry(<<"old-b">>, 420) >>,
         << <<"w", "sub", "e">>, FileEntry(<<"keep">>, 420) >>},
     {W, << <<"w", "sub">>, FileEntry(<<"keep">>, 420) >>},
     {W, << <<"w", "sub">>, DirEntry(493) >>,
         << <<"w", "sub", "b">>, DirEntry(493) >>},
     {W, << <<"w", "d">>, FileEntry(<<"keep">>, 420) >>},
     {W, << <<"w", "d">>, DirEntry(493) >>,
         << <<"w", "d", "t">>, FileEntry(Blocks("old-t"), 420) >>}}

SrcArgs == {<<"s">>, <<"s", "t">>, <<"s", "b">>}

DstArgs == {<<"w">>, <<"w", "d">>, <<"w", "d", "e">>}

\* The paths the last successful copy wrote.
Written(c) ==
    {c.files[i] : i \in DOMAIN c.files} \cup {c.over[i].path : i \in DOMAIN c.over}

RECURSIVE MkdirAll(_, _)
MkdirAll(f, d) ==
    IF IsDirAt(f, d) THEN f ELSE Put(MkdirAll(f, Parent(d)), d, DirEntry(493))

\* After the reversal, something else writes a file at a path the copy had
\* written (parents made as needed).
ExtWrite(p) ==
    /\ pc = "idle"
    /\ status = "ok"
    /\ vpc = "off"
    /\ hist.invoked
    /\ p \in Written(closures[handle])
    /\ Stat(fs, p) \in {"file", "ENOENT"}
    /\ fs' = Put(MkdirAll(fs, Parent(p)), p, FileEntry(<<"ext">>, 420))
    /\ hist' = [hist EXCEPT !.lastop = "ext", !.ext = TRUE]
    /\ UNCHANGED <<pc, args, txn, mk, walk, cf, un, closures, status, handle>>
    /\ UNCHANGED vvars

---------------------------------------------------------------------------
(* Strings: a Go string is the sequence of its characters *)

\* The characters that occur, in byte order.
Alphabet ==
    <<"\n", " ", "\"", "*", "-", ".", "/", "1", "2", "3", "=", "?", "[", "\\", "]", "^", "_", "a", "b", "c", "d",
      "e", "f", "g", "h", "i", "j", "k", "l", "m", "n", "o", "p", "q", "r", "s", "t",
      "u", "v", "w", "x", "y", "z">>

Ord(c) == CHOOSE i \in 1..Len(Alphabet) : Alphabet[i] = c

RECURSIVE StrLess(_, _)
\* a < b for Go strings: byte-wise lexicographic.
StrLess(a, b) ==
    IF b = <<>> THEN FALSE
    ELSE IF a = <<>> THEN TRUE
    ELSE IF Head(a) # Head(b) THEN Ord(Head(a)) < Ord(Head(b))
    ELSE StrLess(Tail(a), Tail(b))

RECURSIVE InsertSorted(_, _)
InsertSorted(x, ss) ==
    IF ss = <<>> THEN <<x>>
    ELSE IF StrLess(x, Head(ss)) THEN <<x>> \o ss
    ELSE <<Head(ss)>> \o InsertSorted(x, Tail(ss))

RECURSIVE SortStrings(_)
\* sort.Strings
SortStrings(ss) ==
    IF ss = <<>> THEN <<>> ELSE InsertSorted(Head(ss), SortStrings(Tail(ss)))

RECURSIVE JoinStrings(_, _)
\* strings.Join
JoinStrings(ss, sep) ==
    IF ss = <<>> THEN <<>>
    ELSE IF Len(ss) = 1 THEN ss[1]
    ELSE ss[1] \o sep \o JoinStrings(Tail(ss), sep)

HasSuffix(x, suffix) ==
    Len(suffix) <= Len(x) /\ SubSeq(x, Len(x) - Len(suffix) + 1, Len(x)) = suffix

HasPrefix(x, prefix) == Len(prefix) <= Len(x) /\ SubSeq(x, 1, Len(prefix)) = prefix

ContainsAny(x, chars) == \E i \in DOMAIN x : x[i] \in chars

\* strings.TrimSpace(x) == ""
IsBlank(x) == \A i \in DOMAIN x : x[i] \in {" ", "\n"}

RECURSIVE Split(_, _)
\* strings.Split(x, sep) for a one-character separator.
Split(x, sep) ==
    IF \A i \in DOMAIN x : x[i] # sep THEN <<x>>
    ELSE LET k == CHOOSE i \in DOMAIN x : x[i] = sep /\ \A j \in 1..(i - 1) : x[j] # sep
         IN <<SubSeq(x, 1, k - 1)>> \o Split(SubSeq(x, k + 1, Len(x)), sep)

Slash == <<"/">>

Dot == <<".">>

DotDot == <<".", ".">>

IsAbs(x) == x # <<>> /\ Head(x) = "/"

RECURSIVE CleanElems(_, _, _)
\* The elements of a path after filepath.Clean: empty elements and "." are
\* dropped, "name/.." is removed, ".." is dropped at the root and kept at the
\* start of a relative path.
CleanElems(elems, acc, rooted) ==
    IF elems = <<>> THEN acc
    ELSE LET e == Head(elems) IN
         IF e = <<>> \/ e = Dot THEN CleanElems(Tail(elems), acc, rooted)
         ELSE IF e = DotDot /\ acc # <<>> /\ acc[Len(acc)] # DotDot
         THEN CleanElems(Tail(elems), SubSeq(acc, 1, Len(acc) - 1), rooted)
         ELSE IF e = DotDot /\ rooted
         THEN CleanElems(Tail(elems), acc, rooted)
         ELSE CleanElems(Tail(elems), Append(acc, e), rooted)

\* filepath.Clean
Clean(x) ==
    LET elems == CleanElems(Split(x, "/"), <<>>, IsAbs(x)) IN
    IF IsAbs(x) THEN Slash \o JoinStrings(elems, Slash)
    ELSE IF elems = <<>> THEN Dot
    ELSE JoinStrings(elems, Slash)

LastIndex(x, c) ==
    IF \A i \in DOMAIN x : x[i] # c THEN 0
    ELSE CHOOSE i \in DOMAIN x : x[i] = c /\ \A j \in (i + 1)..Len(x) : x[j] # c

\* filepath.Dir: the path up to its last separator, cleaned.
Dir(x) == Clean(SubSeq(x, 1, LastIndex(x, "/")))

\* filepath.Base of a cleaned path.
Base(x) == SubSeq(x, LastIndex(x, "/") + 1, Len(x))

\* filepath.Ext: the suffix of the last element from its last dot on.
Ext(x) ==
    LET b == Base(x) IN
    IF LastIndex(b, ".") = 0 THEN <<>> ELSE SubSeq(b, LastIndex(b, "."), Len(b))

\* filepath.Join of two elements.
Join(a, b) ==
    IF a = <<>> /\ b = <<>> THEN <<>>
    ELSE IF a = <<>> THEN Clean(b)
    ELSE IF b = <<>> THEN Clean(a)
    ELSE Clean(a \o Slash \o b)

\* The directory relative paths start from.
Cwd == <<"/", "r">>

\* filepath.Abs
Abs(x) == IF IsAbs(x) THEN Clean(x) ELSE Join(Cwd, x)

\* The names of the filesystem and their characters.
NameChars ==
    ("w" :> <<"w">>) @@ ("wx" :> <<"w", "x">>) @@ ("s" :> <<"s">>) @@
    ("t" :> <<"t">>) @@ ("b" :> <<"b">>) @@ ("d" :> <<"d">>) @@ ("e" :> <<"e">>) @@
    ("sub" :> <<"s", "u", "b">>) @@
    (".fsutil-copy-1" :> <<".", "f", "s", "u", "t", "i", "l", "-", "c", "o", "p", "y", "-", "1">>) @@
    (".fsutil-copy-2" :> <<".", "f", "s", "u", "t", "i", "l", "-", "c", "o", "p", "y", "-", "2">>) @@
    (".fsutil-backup-1" :> <<".", "f", "s", "u", "t", "i", "l", "-", "b", "a", "c", "k", "u", "p", "-", "1">>) @@
    (".fsutil-backup-2" :> <<".", "f", "s", "u", "t", "i", "l", "-", "b", "a", "c", "k", "u", "p", "-", "2">>) @@
    (".fsutil-backup-3" :> <<".", "f", "s", "u", "t", "i", "l", "-", "b", "a", "c", "k", "u", "p", "-", "3">>) @@
    (".fsutil-undo-1" :> <<".", "f", "s", "u", "t", "i", "l", "-", "u", "n", "d", "o", "-", "1">>) @@
    (".fsutil-undo-2" :> <<".", "f", "s", "u", "t", "i", "l", "-", "u", "n", "d", "o", "-", "2">>) @@
    (".run-start.json" :> <<".", "r", "u", "n", "-", "s", "t", "a", "r", "t", ".", "j", "s", "o", "n">>) @@
    (".run-progress.json" :> <<".", "r", "u", "n", "-", "p", "r", "o", "g", "r", "e", "s", "s", ".", "j", "s", "o", "n">>)

NameOf(cs) ==
    IF \E n \in DOMAIN NameChars : NameChars[n] = cs
    THEN CHOOSE n \in DOMAIN NameChars : NameChars[n] = cs
    ELSE "?"

\* The filesystem path a relative path string names.
FsPath(x) ==
    LET elems == CleanElems(Split(x, "/"), <<>>, FALSE) IN
    [i \in 1..Len(elems) |-> NameOf(elems[i])]

---------------------------------------------------------------------------
(* filepath.Match *)

NoChunk == [ok |-> FALSE, rest |-> <<>>]

\* getEsc: one character of a class, possibly escaped.
GetEsc(chunk) ==
    IF chunk = <<>> \/ Head(chunk) \in {"-", "]"} THEN [ok |-> FALSE, r |-> "", rest |-> <<>>]
    ELSE LET c1 == IF Head(chunk) = "\\" THEN Tail(chunk) ELSE chunk IN
         IF c1 = <<>> \/ Tail(c1) = <<>> THEN [ok |-> FALSE, r |-> "", rest |-> <<>>]
         ELSE [ok |-> TRUE, r |-> Head(c1), rest |-> Tail(c1)]

RECURSIVE ClassRanges(_, _)
\* The ranges of a character class up to its closing bracket.
ClassRanges(chunk, some) ==
    IF chunk # <<>> /\ Head(chunk) = "]" /\ some
    THEN [ok |-> TRUE, ranges |-> {}, rest |-> Tail(chunk)]
    ELSE LET lo == GetEsc(chunk) IN
         IF ~lo.ok THEN [ok |-> FALSE, ranges |-> {}, rest |-> <<>>]
         ELSE LET hi == IF Head(lo.rest) = "-" THEN GetEsc(Tail(lo.rest)) ELSE lo IN
              IF ~hi.ok THEN [ok |-> FALSE, ranges |-> {}, rest |-> <<>>]
              ELSE LET more == ClassRanges(hi.rest, TRUE) IN
                   [ok |-> more.ok, ranges |-> more.ranges \cup {<<lo.r, hi.r>>},
                    rest |-> more.rest]

InRanges(c, ranges) ==
    \E r \in ranges : Ord(r[1]) <= Ord(c) /\ Ord(c) <= Ord(r[2])

RECURSIVE MatchChunk(_, _)
\* matchChunk: the chunk (no star outside a class) against a prefix of name;
\* the rest of the name when it matches.  A malformed chunk matches nothing.
MatchChunk(chunk, name) ==
    IF chunk = <<>> THEN [ok |-> TRUE, rest |-> name]
    ELSE LET c == Head(chunk) IN
         IF c = "["
         THEN LET neg == Len(chunk) >= 2 /\ chunk[2] = "^"
                  cls == ClassRanges(IF neg THEN Tail(Tail(chunk)) ELSE Tail(chunk), FALSE)
              IN IF cls.ok /\ name # <<>> /\ (InRanges(Head(name), cls.ranges) # neg)
                 THEN MatchChunk(cls.rest, Tail(name))
                 ELSE NoChunk
         ELSE IF c = "?"
         THEN IF name # <<>> /\ Head(name) # "/"
              THEN MatchChunk(Tail(chunk), Tail(name))
              ELSE NoChunk
         ELSE IF c = "\\"
         THEN IF Len(chunk) >= 2 /\ name # <<>> /\ chunk[2] = Head(name)
              THEN MatchChunk(Tail(Tail(chunk)), Tail(name))
              ELSE NoChunk
         ELSE IF name # <<>> /\ c = Head(name)
              THEN MatchChunk(Tail(chunk), Tail(name))
              ELSE NoChunk

RECURSIVE ChunkEnd(_, _, _)
\* scanChunk: the index of the last character of the chunk that starts at i
\* (it ends before the next star outside a class).
ChunkEnd(pattern, i, inrange) ==
    IF i > Len(pattern) THEN Len(pattern)
    ELSE IF pattern[i] = "\\" THEN ChunkEnd(pattern, i + 2, inrange)
    ELSE IF pattern[i] = "[" THEN ChunkEnd(pattern, i + 1, TRUE)
    ELSE IF pattern[i] = "]" THEN ChunkEnd(pattern, i + 1, FALSE)
    ELSE IF pattern[i] = "*" /\ ~inrange THEN i - 1
    ELSE ChunkEnd(pattern, i + 1, inrange)

RECURSIVE SkipStars(_)
SkipStars(pattern) ==
    IF pattern # <<>> /\ Head(pattern) = "*" THEN SkipStars(Tail(pattern)) ELSE pattern

RECURSIVE Match_StarCrossesSeparator(_, _)
Match_StarCrossesSeparator(pattern, name) ==
    IF pattern = <<>> THEN name = <<>>
    ELSE IF Head(pattern) = "*"
    THEN \E i \in 0..Len(name) :
            Match_StarCrossesSeparator(Tail(pattern), SubSeq(name, i + 1, Len(name)))
    ELSE LET m == MatchChunk(<<Head(pattern)>>, name) IN
         Head(pattern) \notin {"[", "\\"} /\ m.ok
            /\ Match_StarCrossesSeparator(Tail(pattern), m.rest)

RECURSIVE Match(_, _)
\* filepath.Match; an error (a malformed pattern) is reported as no match.
Match(pattern, name) ==
    IF pattern = <<>> THEN name = <<>>
    ELSE LET star   == Head(pattern) = "*"
             p1     == SkipStars(pattern)
             last   == ChunkEnd(p1, 1, FALSE)
             chunk  == SubSeq(p1, 1, last)
             rest   == SubSeq(p1, last + 1, Len(p1))
             here   == MatchChunk(chunk, name)
             \* the skips a star may make: up to the first separator
             skips  == {i \in 1..Len(name) : \A j \in 1..i : name[j] # "/"}
             good   == {i \in skips :
                           LET m == MatchChunk(chunk, SubSeq(name, i + 1, Len(name))) IN
                           m.ok /\ (rest # <<>> \/ m.rest = <<>>)}
         IN
         IF star /\ chunk = <<>> THEN \A i \in DOMAIN name : name[i] # "/"
         ELSE IF here.ok /\ (here.rest = <<>> \/ rest # <<>>) THEN Match(rest, here.rest)
         ELSE IF star /\ good # {}
         THEN LET i == CHOOSE k \in good : \A j \in good : k <= j IN
              Match(rest, MatchChunk(chunk, SubSeq(name, i + 1, Len(name))).rest)
         ELSE FALSE


---------------------------------------------------------------------------
(* The modification audit of verify *)

RECURSIVE TrimLeft(_)
TrimLeft(x) ==
    IF x # <<>> /\ Head(x) \in {" ", "\n"} THEN TrimLeft(Tail(x)) ELSE x

\* strings.TrimSpace
TrimSpace(x) == Reverse(TrimLeft(Reverse(TrimLeft(x))))

\* verifyIgnoredFiles
verifyIgnoredFiles_None == {}

verifyIgnoredFiles ==
    {<<".", "r", "u", "n", "-", "s", "t", "a", "r", "t", ".", "j", "s", "o", "n">>,
     <<".", "r", "u", "n", "-", "p", "r", "o", "g", "r", "e", "s", "s", ".", "j", "s", "o", "n">>}

RECURSIVE ScanPaths(_)
\* The scanner loop of listWorkspaceChanges over one command's output: the
\* cleaned, non-empty lines.
ScanPaths(lines) ==
    IF lines = <<>> THEN {}
    ELSE LET p == TrimSpace(Head(lines)) IN
         (IF p = <<>> THEN {} ELSE {Clean(p)}) \cup ScanPaths(Tail(lines))

RECURSIVE SetToSeq(_)
SetToSeq(S) ==
    IF S = {} THEN <<>> ELSE LET x == CHOOSE y \in S : TRUE IN <<x>> \o SetToSeq(S \ {x})

\* listWorkspaceChanges: the paths the three git queries print, without
\* duplicates, sorted.
listWorkspaceChanges(outputs) ==
    SortStrings(SetToSeq(UNION {ScanPaths(Split(outputs[i], "\n")) : i \in DOMAIN outputs}))

filterIgnoredChanges_Keep(paths) == paths

RECURSIVE filterIgnoredChanges(_)
filterIgnoredChanges(paths) ==
    IF paths = <<>> THEN <<>>
    ELSE LET clean == Clean(Head(paths)) IN
         IF clean \in verifyIgnoredFiles
         THEN filterIgnoredChanges(Tail(paths))
         ELSE <<clean>> \o filterIgnoredChanges(Tail(paths))

looksLikeDirRule_SuffixOnly(f, rule, workspaceDir) == HasSuffix(rule, Slash)

looksLikeDirRule(f, rule, workspaceDir) ==
    \/ HasSuffix(rule, Slash)
    \/ Stat(f, FsPath(Join(workspaceDir, Clean(rule)))) = "dir"

pathMatchesRule_ParentOnly(f, path, rule, workspaceDir) ==
    IF IsBlank(rule) THEN FALSE
    ELSE LET cleanPath == Clean(path) IN
         IF ContainsAny(rule, {"*", "?", "["}) THEN Match(rule, cleanPath)
         ELSE LET cleanRule == Clean(rule) IN
              IF looksLikeDirRule(f, rule, workspaceDir)
              THEN Dir(cleanPath) = cleanRule
              ELSE cleanPath = cleanRule

pathMatchesRule(f, path, rule, workspaceDir) ==
    IF IsBlank(rule) THEN FALSE
    ELSE LET cleanPath == Clean(path) IN
         IF ContainsAny(rule, {"*", "?", "["}) THEN Match(rule, cleanPath)
         ELSE LET cleanRule == Clean(rule) IN
              IF cleanPath = cleanRule THEN TRUE
              ELSE IF looksLikeDirRule(f, rule, workspaceDir)
              THEN Dir(cleanPath) = cleanRule
              ELSE FALSE

anyChangeMatchesRule_First(f, changes, rule, workspaceDir) ==
    changes # <<>> /\ pathMatchesRule(f, changes[1], rule, workspaceDir)

anyChangeMatchesRule(f, changes, rule, workspaceDir) ==
    \E i \in DOMAIN changes : pathMatchesRule(f, changes[i], rule, workspaceDir)

matchesPathRule_LastRule(f, path, rules, workspaceDir) ==
    rules # <<>> /\ pathMatchesRule(f, path, rules[Len(rules)], workspaceDir)

matchesPathRule(f, path, rules, workspaceDir) ==
    \E i \in DOMAIN rules : pathMatchesRule(f, path, rules[i], workspaceDir)

MsgBlocked == <<" ", "i", "s", " ", "b", "l", "o", "c", "k", "e", "d", " ", "b", "y", " ", "v", "e", "r", "i", "f", "y", ".", "n", "o", "-", "m", "o", "d", "i", "f", "y">>

MsgNotModified == <<" ", "i", "n", " ", "v", "e", "r", "i", "f", "y", ".", "m", "u", "s", "t", "-", "m", "o", "d", "i", "f", "y", " ", "w", "a", "s", " ", "n", "o", "t", " ", "m", "o", "d", "i", "f", "i", "e", "d">>

MsgNoChanges == <<"w", "o", "r", "k", "s", "p", "a", "c", "e", " ", "h", "a", "s", " ", "n", "o", " ", "c", "h", "a", "n", "g", "e", "s", " ", "b", "u", "t", " ", "v", "e", "r", "i", "f", "y", ".", "m", "u", "s", "t", "-", "m", "o", "d", "i", "f", "y", " ", "r", "e", "q", "u", "i", "r", "e", "s", " ", "m", "o", "d", "i", "f", "i", "c", "a", "t", "i", "o", "n", "s">>

RECURSIVE BlockedProblems(_, _, _, _)
\* The first loop of checkModificationRules: one message per changed path a
\* no-modify rule matches.
BlockedProblems(f, changes, rules, workspaceDir) ==
    IF changes = <<>> THEN <<>>
    ELSE (IF matchesPathRule(f, Head(changes), rules, workspaceDir)
          THEN <<Head(changes) \o MsgBlocked>> ELSE <<>>)
         \o BlockedProblems(f, Tail(changes), rules, workspaceDir)

RECURSIVE MissingProblems(_, _, _, _)
\* The second loop: one message per must-modify rule no changed path matches.
MissingProblems(f, changes, rules, workspaceDir) ==
    IF rules = <<>> THEN <<>>
    ELSE (IF ~anyChangeMatchesRule(f, changes, Head(rules), workspaceDir)
          THEN <<Head(rules) \o MsgNotModified>> ELSE <<>>)
         \o MissingProblems(f, changes, Tail(rules), workspaceDir)

\* The messages in the order the loops append them.
AppendedProblems(f, sc, workspaceDir, changes) ==
    BlockedProblems(f, changes, sc.noModify, workspaceDir)
        \o MissingProblems(f, changes, sc.mustModify, workspaceDir)

SortProblems_Unsorted(problems) == problems

\* sort.Strings(problems)
SortProblems(problems) == SortStrings(problems)

checkModificationRules(f, sc, workspaceDir, outputs) ==
    LET changes == filterIgnoredChanges(listWorkspaceChanges(outputs)) IN
    IF changes = <<>>
    THEN IF sc.mustModify = <<>> THEN <<>> ELSE <<MsgNoChanges>>
    ELSE SortProblems(AppendedProblems(f, sc, workspaceDir, changes))

---------------------------------------------------------------------------
(* fsutil.SafeJoin and the destination of a verify copy step *)

\* SafeJoin: [ok, path]; the containment test compares strings.
SafeJoin(base, rel) ==
    LET clean     == Clean(rel)
        target    == Join(base, clean)
        absBase   == Abs(base)
        absTarget == Abs(target)
    IN IF ~HasPrefix(absTarget, absBase)
       THEN [ok |-> FALSE, path |-> <<>>]
       ELSE [ok |-> TRUE, path |-> target]

\* The directory applyVerifyCopies copies step c into; isDir says whether the
\* source is a directory.
CopyDstDir(workspaceDir, c, isDir) ==
    IF isDir THEN SafeJoin(workspaceDir, c.to)
    ELSE LET target == Clean(c.to) IN
         IF HasSuffix(c.to, Slash) \/ Ext(target) = <<>>
         THEN SafeJoin(workspaceDir, target)
         ELSE SafeJoin(workspaceDir, Dir(target))

---------------------------------------------------------------------------
(* scenario.Validate, as far as the verify section goes *)

\* strings.Contains
Contains(x, sub) ==
    \E i \in 0..(Len(x) - Len(sub)) : SubSeq(x, i + 1, i + Len(sub)) = sub

Blanks == {" ", "\t"}

\* findRunIndex: the 0-based index of the first "-run" at the start of the
\* string or after a blank, -1 when there is none.
findRunIndex(x) ==
    LET hits == {i \in 0..(Len(x) - 1) :
                    /\ HasPrefix(SubSeq(x, i + 1, Len(x)), <<"-", "r", "u", "n">>)
                    /\ i = 0 \/ x[i] \in Blanks}
    IN IF hits = {} THEN -1 ELSE CHOOSE i \in hits : \A j \in hits : i <= j

\* stripOptionalQuotes: [ok, s].
stripOptionalQuotes(x) ==
    IF Len(x) < 2 THEN [ok |-> TRUE, s |-> x]
    ELSE LET first == x[1]
             last  == x[Len(x)]
         IN IF (first = "\"" /\ last = "\"") \/ (first = "'" /\ last = "'")
            THEN [ok |-> TRUE, s |-> SubSeq(x, 2, Len(x) - 1)]
            ELSE IF {first, last} \cap {"\"", "'"} # {}
            THEN [ok |-> FALSE, s |-> <<>>]
            ELSE [ok |-> TRUE, s |-> x]

hasGlob(x) == ContainsAny(x, {"*", "?", "["})

\* validateTestTarget: TRUE when it returns nil.
validateTestTarget(target, hasRun) ==
    /\ target # <<>>
    /\ ~ContainsAny(target, {" ", "\t", "\r", "\n"})
    /\ ~IsAbs(target)
    /\ ~HasPrefix(target, <<"-">>)
    /\ ~HasSuffix(target, Slash)
    /\ ~ContainsAny(target, {"\"", "'"})
    /\ IF hasGlob(target)
       THEN HasSuffix(target, <<"_", "t", "e", "s", "t", ".", "g", "o">>) /\ ~hasRun
       ELSE IF HasSuffix(target, <<".", "g", "o">>)
       THEN HasSuffix(target, <<"_", "t", "e", "s", "t", ".", "g", "o">>)
       ELSE IF Contains(target, <<".", ".", ".">>)
       THEN HasSuffix(target, <<".", ".", ".">>) /\ ~hasRun
       ELSE TRUE

\* parseTestTarget: [ok, target, run].
parseTestTarget(entry) ==
    LET raw    == TrimSpace(entry)
        bad    == [ok |-> FALSE, target |-> <<>>, run |-> <<>>]
        runIdx == findRunIndex(raw)
    IN IF raw = <<>> THEN bad
       ELSE IF ContainsAny(raw, {"\r", "\n"}) THEN bad
       ELSE IF runIdx = 0 THEN bad
       ELSE IF runIdx > 0 /\ Contains(SubSeq(raw, runIdx + 2, Len(raw)), <<" ", "-", "r", "u", "n">>) THEN bad
       ELSE IF runIdx < 0
       THEN [ok |-> validateTestTarget(raw, FALSE), target |-> raw, run |-> <<>>]
       ELSE LET target  == TrimSpace(SubSeq(raw, 1, runIdx))
                runPart == TrimSpace(SubSeq(raw, runIdx + 1, Len(raw)))
                rest    == SubSeq(runPart, 5, Len(runPart))
            IN IF HasPrefix(runPart, <<"-", "-", "r", "u", "n">>) THEN bad
               ELSE IF rest = <<>> THEN bad
               ELSE IF rest[1] \notin {"=", " ", "\t"} THEN bad
               ELSE LET run == TrimSpace(Tail(rest)) IN
                    IF run = <<>> THEN bad
                    ELSE LET cleaned == stripOptionalQuotes(run) IN
                         IF ~cleaned.ok THEN bad
                         ELSE [ok |-> validateTestTarget(target, cleaned.s # <<>>),
                               target |-> target, run |-> cleaned.s]

validateCopySteps(f, steps, scenarioDir) ==
    \A i \in DOMAIN steps :
        /\ steps[i].from # <<>>
        /\ steps[i].to # <<>>
        /\ Stat(f, FsPath(Join(scenarioDir, steps[i].from))) \in {"file", "dir"}

validateMustModify(entries) == \A i \in DOMAIN entries : ~IsBlank(entries[i])

\* parseTestTargets: TRUE when every entry parses.
parseTestTargets(entries) == \A i \in DOMAIN entries : parseTestTarget(entries[i]).ok

Validate(f, sc, scenarioDir) ==
    /\ parseTestTargets(sc.tests)
    /\ parseTestTargets(sc.partial)
    /\ validateCopySteps(f, sc.copy, scenarioDir)
    /\ validateMustModify(sc.mustModify)

---------------------------------------------------------------------------
(* verify.Run *)

\* workspace.ScenarioDir and workspace.WorkspaceScenarioDir of the scenario.
ScenarioDir == <<"s">>

WorkspaceDir == <<"w">>

NoReport == [nil |-> TRUE, success |-> FALSE, score |-> [set |-> FALSE, num |-> 0, den |-> 1],
             tests |-> <<>>, partial |-> <<>>]

NoScore == [set |-> FALSE, num |-> 0, den |-> 1]

GateTestName == <<"v", "e", "r", "i", "f", "y", ".", "m", "o", "d", "i", "f", "i", "c", "a", "t", "i", "o", "n", "-", "r", "u", "l", "e", "s">>

ExitStatus == <<"e", "x", "i", "t", " ", "s", "t", "a", "t", "u", "s", " ", "1">>

\* A types.TestResult.
TestResult(name, passed, error) == [name |-> name, passed |-> passed, error |-> error]

\* The report of the gate: one synthetic failing result.
GateReport(problems) ==
    [nil |-> FALSE, success |-> FALSE, score |-> NoScore,
     tests |-> <<TestResult(GateTestName, FALSE, JoinStrings(problems, <<"\n">>))>>,
     partial |-> <<>>]

allPassed(rs) == \A i \in DOMAIN rs : rs[i].passed

partialPassed_Always(score) == TRUE

\* partialScore == nil || *partialScore == 1
partialPassed(score) == ~score.set \/ score.num = score.den

\* The report of a full run.
RunReport(tests, partial, score) ==
    [nil |-> FALSE, success |-> allPassed(tests) /\ partialPassed(score),
     score |-> score, tests |-> tests, partial |-> partial]

\* parseJSONCounts: [passed, total] over the lines of a test2json stream; a
\* line that is not JSON or names no test is skipped.  The bufio.Scanner
\* delivers no line longer than bufio.MaxScanTokenSize: Scan returns false at
\* such a line (long) and the loop ends there, the error unread.
RECURSIVE parseJSONCounts(_)
parseJSONCounts(output) ==
    IF output = <<>> \/ Head(output).long THEN [passed |-> 0, total |-> 0]
    ELSE LET ev   == Head(output)
             more == parseJSONCounts(Tail(output))
         IN IF ~ev.json \/ ev.test = "" THEN more
            ELSE IF ev.action = "pass"
            THEN [passed |-> more.passed + 1, total |-> more.total + 1]
            ELSE IF ev.action = "fail"
            THEN [passed |-> more.passed, total |-> more.total + 1]
            ELSE more

PartialScore_OverOne(passed, total) == [set |-> TRUE, num |-> passed, den |-> 1]

PartialScore_AbsentWithoutEvents(passed, total) ==
    IF total > 0 THEN [set |-> TRUE, num |-> passed, den |-> total]
    ELSE [set |-> FALSE, num |-> 0, den |-> 1]

\* The end of runPartial: passed/total, and 0 when no test ran.
PartialScore(passed, total) ==
    IF total > 0 THEN [set |-> TRUE, num |-> passed, den |-> total]
    ELSE [set |-> TRUE, num |-> 0, den |-> 1]

NoVst == [k |-> 1, undos |-> <<>>, problems |-> <<>>, t |-> 1, tests |-> <<>>,
          partial |-> <<>>, passed |-> 0, total |-> 0, score |-> NoScore,
          ret |-> [result |-> NoReport, err |-> "nil"], i |-> 0, printed |-> 0,
          audited |-> FALSE, git |-> <<>>]

NoCfg == [copy |-> <<>>, tests |-> <<>>, partial |-> <<>>, mustModify |-> <<>>,
          noModify |-> <<>>, onlyReport |-> FALSE]

\* The history at the start of the first call on tree f: the tree, the
\* CopyToDir calls and test processes started, what the processes did, and the
\* same for the call before.
NewVhist(f) ==
    [fs0 |-> f, copies |-> 0, runs |-> 0, call |-> 1, log |-> <<>>, acts |-> <<>>,
     files |-> <<>>,
     first |-> [fs0 |-> f, log |-> <<>>,
                out |-> [done |-> FALSE, result |-> NoReport, err |-> "nil"]]]

\* What a test process can do: anything from the set all, but the same as in
\* the call before when it runs on the same tree (the tests are deterministic).
Outcomes(all) ==
    IF vhist.call > 1 /\ vhist.fs0 = vhist.first.fs0 /\ Len(vhist.log) < Len(vhist.first.log)
    THEN {vhist.first.log[Len(vhist.log) + 1]}
    ELSE all

NoOut == [done |-> FALSE, result |-> NoReport, err |-> "nil"]

engine == <<fs, pc, args, txn, mk, walk, cf, un, closures, status, handle, hist>>

\* "return res, err" of Run where no cleanup is deferred.
Return(result, err) ==
    /\ out' = [done |-> TRUE, result |-> result, err |-> err]
    /\ vpc' = "done"

GateFails_Never(problems) == FALSE

\* len(problems) > 0
GateFails(problems) == Len(problems) > 0

\* The path string git prints for a workspace file.
PathString(p) ==
    JoinStrings([i \in 1..(Len(p) - 1) |-> NameChars[p[i + 1]]], Slash)

RECURSIVE Lines(_)
Lines(ss) == IF ss = <<>> THEN <<>> ELSE Head(ss) \o <<"\n">> \o Lines(Tail(ss))

\* What the git queries print on tree f when they printed outputs on tree f0:
\* the same, plus the workspace files whose content changed (git diff) and the
\* files that are new (git ls-files --others).
GitAfter(outputs, f0, f) ==
    LET ws       == FsPath(WorkspaceDir)
        inWs(p)  == IsUnder(ws, p) /\ f[p].kind = "file"
        changed  == {p \in DOMAIN f : inWs(p) /\ p \in DOMAIN f0 /\ f0[p] # f[p]}
        added    == {p \in DOMAIN f : inWs(p) /\ p \notin DOMAIN f0}
        text(S)  == Lines(SortStrings(SetToSeq({PathString(p) : p \in S})))
    IN <<outputs[1] \o text(changed), outputs[2], outputs[3] \o text(added)>>

NextStep_CopyFirst(at, problems) ==
    CASE at = "validated" -> "copy"
      [] at = "copied"    -> "audit"
      [] at = "audited"   -> IF GateFails(problems) THEN "gate" ELSE "tests"

\* The order of the steps of Run: the audit, the gate, then the copy steps,
\* then the tests.
NextStep(at, problems) ==
    CASE at = "validated" -> "audit"
      [] at = "audited"   -> IF GateFails(problems) THEN "gate" ELSE "copy"
      [] at = "copied"    -> "tests"

\* Run up to the audit: Validate, the workspace must exist.
VStart ==
    /\ vpc = "start"
    /\ UNCHANGED engine
    /\ UNCHANGED <<xvars, cfg, gitOut, results, vhist, vst>>
    /\ IF ~Validate(fs, cfg, ScenarioDir)
       THEN Return(NoReport, "validate")
       ELSE IF Stat(fs, FsPath(WorkspaceDir)) \notin {"file", "dir"}
       THEN Return(NoReport, "workspace")
       ELSE /\ vpc' = NextStep("validated", <<>>)
            /\ UNCHANGED out

\* The audit: listWorkspaceChanges runs the git queries on the workspace as
\* it is now, checkModificationRules evaluates the rules on what they print.
VAudit ==
    /\ vpc = "audit"
    /\ pc = "idle"
    /\ UNCHANGED engine
    /\ UNCHANGED <<xvars, cfg, gitOut, results, vhist>>
    /\ \E gitFails \in Faults :
          IF gitFails
          THEN Return(NoReport, "git") /\ UNCHANGED vst
          ELSE LET git      == GitAfter(gitOut, vhist.fs0, fs)
                   problems == checkModificationRules(fs, cfg, WorkspaceDir, git)
               IN /\ vst' = [vst EXCEPT !.problems = problems, !.audited = TRUE,
                                        !.git = git]
                  /\ vpc' = NextStep("audited", problems)
                  /\ UNCHANGED out

\* The run metadata verify reads from the workspace: .run-start.json and
\* .run-progress.json, present when git lists them as untracked files.
Listed(name) == \E i \in DOMAIN gitOut : name \in ScanPaths(Split(gitOut[i], "\n"))

NoMeta == [nil |-> TRUE, runID |-> <<>>, agent |-> <<>>, model |-> <<>>]

readRunStart ==
    IF Listed(<<".", "r", "u", "n", "-", "s", "t", "a", "r", "t", ".", "j", "s", "o", "n">>)
    THEN [nil |-> FALSE, runID |-> <<"r", "1">>, agent |-> <<>>, model |-> <<"m", "/", "1">>]
    ELSE NoMeta

readRunProgress ==
    IF Listed(<<".", "r", "u", "n", "-", "p", "r", "o", "g", "r", "e", "s", "s", ".", "j", "s", "o", "n">>)
    THEN [nil |-> FALSE, runID |-> <<"r", "2">>, agent |-> <<"a">>, model |-> <<" ">>]
    ELSE NoMeta

\* runID, agentName, modelName: the run start first, then the progress.
MetaField(start, prog, field) ==
    IF ~start.nil /\ start[field] # <<>> THEN start[field]
    ELSE IF ~prog.nil /\ prog[field] # <<>> THEN prog[field]
    ELSE <<>>

RECURSIVE ReplaceAll(_, _, _)
\* strings.ReplaceAll for a one-character old.
ReplaceAll(x, old, new) ==
    IF x = <<>> THEN <<>>
    ELSE (IF Head(x) = old THEN new ELSE <<Head(x)>>) \o ReplaceAll(Tail(x), old, new)

safePart_Raw(value, fallback) == value

safePart(value, fallback) ==
    LET val == TrimSpace(value) IN
    IF val = <<>> THEN fallback ELSE ReplaceAll(val, "/", <<"_">>)

\* VerifiedAt.Format("2006-01-02") on the day of the call.
Today == <<"2", "0", "2", "5", "-", "1", "2", "-", "0", "3">>

ScenarioName == <<"s">>

\* resultsDir with GOAGENTBENCH_RESULTS unset and the root "."
ResultsDir == <<"r", "e", "s", "u", "l", "t", "s">>

\* The path writeReport writes to.
ReportPath ==
    LET start == readRunStart
        prog  == readRunProgress
        filename == Today \o <<"-">> \o safePart(MetaField(start, prog, "runID"), <<"r", "u", "n">>)
                          \o <<"-">> \o safePart(MetaField(start, prog, "agent"), <<"a", "g", "e", "n", "t">>)
                          \o <<"-">> \o safePart(MetaField(start, prog, "model"), <<"m", "o", "d", "e", "l">>)
                          \o <<".", "v", "e", "r", "i", "f", "y", ".", "j", "s", "o", "n">>
    IN Join(Join(ResultsDir, ScenarioName), filename)

\* What can happen to the write: it succeeds, it fails with no file created
\* (MkdirAll or the open fails), it fails after the file was created.
WriteFaults == {"none", "nofile", "partial"}

WriteReport_Always(report, fail) ==
    [results |-> Append(results, report), files |-> Append(vhist.files, ReportPath),
     printed |-> vst.printed + 1, ret |-> [result |-> report, err |-> "nil"]]

\* "if !opts.OnlyReport { if err := writeReport(...); err != nil { return nil, err } }"
\* then printSummary and the return value: the reports and the files the
\* results directory holds, what Run returns, how many summaries were printed.
WriteReport(report, fail) ==
    IF ~cfg.onlyReport /\ fail # "none"
    THEN [results |-> results,
          files |-> IF fail = "partial" THEN Append(vhist.files, ReportPath) ELSE vhist.files,
          printed |-> vst.printed,
          ret |-> [result |-> NoReport, err |-> "write"]]
    ELSE [results |-> IF cfg.onlyReport THEN results ELSE Append(results, report),
          files |-> IF cfg.onlyReport THEN vhist.files ELSE Append(vhist.files, ReportPath),
          printed |-> vst.printed + 1,
          ret |-> [result |-> report, err |-> "nil"]]

\* The gate found violations: the report, its write, the summary, the return.
VGate ==
    /\ vpc = "gate"
    /\ UNCHANGED engine
    /\ UNCHANGED <<xvars, cfg, gitOut>>
    /\ \E fail \in WriteFaults :
          LET w == WriteReport(GateReport(vst.problems), fail) IN
          /\ results' = w.results
          /\ vhist' = [vhist EXCEPT !.files = w.files]
          /\ vst' = [vst EXCEPT !.ret = w.ret, !.printed = w.printed]
          /\ Return(w.ret.result, w.ret.err)

\* One iteration of the loop of applyVerifyCopies up to the CopyToDir call,
\* or the return of the cleanup function after the last step.
VCopy ==
    /\ vpc = "copy"
    /\ pc = "idle"
    /\ status = "none"
    /\ UNCHANGED <<xvars, cfg, gitOut, results>>
    /\ IF vst.k > Len(cfg.copy)
       THEN /\ vpc' = NextStep("copied", vst.problems)
            /\ UNCHANGED engine
            /\ UNCHANGED <<vst, out, vhist>>
       ELSE LET c   == cfg.copy[vst.k]
                src == Join(ScenarioDir, c.from)
                st  == Stat(fs, FsPath(src))
            IN IF st \notin {"file", "dir"}
               THEN /\ Return(NoReport, "copy")
                    /\ UNCHANGED engine
                    /\ UNCHANGED <<vst, vhist>>
               ELSE LET dst == CopyDstDir(WorkspaceDir, c, st = "dir") IN
                    IF ~dst.ok
                    THEN /\ Return(NoReport, "copy")
                         /\ UNCHANGED engine
                         /\ UNCHANGED <<vst, vhist>>
                    ELSE /\ CopyToDirCall(FsPath(src), FsPath(dst.path), TRUE)
                         /\ vpc' = "copying"
                         /\ vhist' = [vhist EXCEPT !.copies = @ + 1]
                         /\ UNCHANGED <<vst, out>>

\* CopyToDir has returned: keep the closure, or return its error.
VCopyRet ==
    /\ vpc = "copying"
    /\ pc = "idle"
    /\ status # "none"
    /\ status' = "none"
    /\ UNCHANGED <<fs, pc, args, txn, mk, walk, cf, un, closures, handle, hist>>
    /\ UNCHANGED <<xvars, cfg, gitOut, results, vhist>>
    /\ IF status = "err"
       THEN /\ Return(NoReport, "copy")
            /\ UNCHANGED vst
       ELSE /\ vst' = [vst EXCEPT !.undos = Append(@, handle), !.k = @ + 1]
            /\ vpc' = "copy"
            /\ UNCHANGED out

\* The scanner of shellwords.Parse in its default mode (no backtick or
\* environment expansion), from character i of x on: [ok, args].  st holds
\* the flags of the scanner, the word being read and the words read.
RECURSIVE ShellScan(_, _, _)
ShellScan(x, i, st) ==
    IF i > Len(x)
    THEN [ok   |-> ~(st.escaped \/ st.single \/ st.double),
          args |-> IF st.got THEN Append(st.args, st.buf) ELSE st.args]
    ELSE LET r == x[i]
             quoted == st.single \/ st.double
         IN IF st.escaped
            THEN ShellScan(x, i + 1, [st EXCEPT !.buf = Append(@, r), !.escaped = FALSE, !.got = TRUE])
            ELSE IF r = "\\"
            THEN ShellScan(x, i + 1, IF st.single THEN [st EXCEPT !.buf = Append(@, r)]
                                     ELSE [st EXCEPT !.escaped = TRUE])
            ELSE IF r \in {" ", "\t", "\r", "\n"}
            THEN ShellScan(x, i + 1,
                    IF quoted THEN [st EXCEPT !.buf = Append(@, r)]
                    ELSE IF st.got
                    THEN [st EXCEPT !.args = Append(@, st.buf), !.buf = <<>>, !.got = FALSE]
                    ELSE st)
            ELSE IF r = "\"" /\ ~st.single
            THEN ShellScan(x, i + 1, [st EXCEPT !.double = ~@, !.got = @ \/ st.double])
            ELSE IF r = "'" /\ ~st.double
            THEN ShellScan(x, i + 1, [st EXCEPT !.single = ~@, !.got = @ \/ st.single])
            ELSE IF r \in {";", "&", "|", "<", ">"} /\ ~quoted
            THEN ShellScan(x, Len(x) + 1, st)
            ELSE ShellScan(x, i + 1, [st EXCEPT !.buf = Append(@, r), !.got = TRUE])

ShellwordsParse(x) ==
    ShellScan(x, 1, [escaped |-> FALSE, single |-> FALSE, double |-> FALSE,
                     got |-> FALSE, buf |-> <<>>, args |-> <<>>])

ErrEmptyEntry == <<"e", "m", "p", "t", "y", " ", "t", "e", "s", "t", " ", "e", "n", "t", "r", "y">>

ErrInvalidCommandLine == <<"i", "n", "v", "a", "l", "i", "d", " ", "c", "o", "m", "m", "a", "n", "d", " ", "l", "i", "n", "e", " ", "s", "t", "r", "i", "n", "g">>

ErrNoArgs == <<"n", "o", " ", "a", "r", "g", "s", " ", "p", "a", "r", "s", "e", "d">>

pathExists(f, p) == Stat(f, FsPath(p)) \in {"file", "dir"}

normalizeTestTargetArg_AnyTarget(f, target, workdir) ==
    IF target = <<>> THEN target
    ELSE LET noDots == IF HasSuffix(target, <<"/", ".", ".", ".">>)
                       THEN SubSeq(target, 1, Len(target) - 4) ELSE target
             base   == IF ContainsAny(noDots, {"*", "?", "["}) THEN Dir(noDots) ELSE noDots
         IN IF base = <<>> THEN target
            ELSE IF pathExists(f, Join(workdir, base)) THEN <<".", "/">> \o target
            ELSE target

\* normalizeTestTargetArg: the target with "./" in front when it is written
\* without it and names something that exists in the working directory.
normalizeTestTargetArg(f, target, workdir) ==
    IF \/ target = <<>>
       \/ HasPrefix(target, <<".", "/">>)
       \/ HasPrefix(target, <<".", ".", "/">>)
       \/ IsAbs(target)
    THEN target
    ELSE LET noDots == IF HasSuffix(target, <<"/", ".", ".", ".">>)
                       THEN SubSeq(target, 1, Len(target) - 4) ELSE target
             base   == IF ContainsAny(noDots, {"*", "?", "["}) THEN Dir(noDots) ELSE noDots
         IN IF base = <<>> THEN target
            ELSE IF pathExists(f, Join(workdir, base)) THEN <<".", "/">> \o target
            ELSE target

parseTestArgs_Accept(f, workdir, entry) == [ok |-> TRUE, args |-> <<entry>>, error |-> <<>>]

\* parseTestArgs: [ok, args, error]; the first argument is normalized.
parseTestArgs(f, workdir, entry) ==
    LET trimmed == TrimSpace(entry)
        rest    == IF HasPrefix(trimmed, <<"g", "o", " ", "t", "e", "s", "t">>)
                   THEN TrimSpace(SubSeq(trimmed, 8, Len(trimmed)))
                   ELSE trimmed
        parsed  == ShellwordsParse(rest)
    IN IF trimmed = <<>> THEN [ok |-> FALSE, args |-> <<>>, error |-> ErrEmptyEntry]
       ELSE IF ~parsed.ok THEN [ok |-> FALSE, args |-> <<>>, error |-> ErrInvalidCommandLine]
       ELSE IF parsed.args = <<>> THEN [ok |-> FALSE, args |-> <<>>, error |-> ErrNoArgs]
       ELSE [ok |-> TRUE, error |-> <<>>,
             args |-> [parsed.args EXCEPT ![1] = normalizeTestTargetArg(f, @, workdir)]]

\* runTestList: one runGoTest per step; a go test process passes or fails.
VTest ==
    /\ vpc = "tests"
    /\ UNCHANGED engine
    /\ UNCHANGED <<xvars, cfg, gitOut, results, out>>
    /\ IF vst.t > Len(cfg.tests)
       THEN /\ vpc' = "partial"
            /\ vst' = [vst EXCEPT !.t = 1]
            /\ UNCHANGED vhist
       ELSE /\ vpc' = vpc
            /\ LET entry  == cfg.tests[vst.t]
                   parsed == parseTestArgs(fs, WorkspaceDir, entry)
               IN IF ~parsed.ok
                  THEN /\ vst' = [vst EXCEPT
                                    !.t = @ + 1,
                                    !.tests = Append(@, TestResult(entry, FALSE, parsed.error))]
                       /\ UNCHANGED vhist
                  ELSE \E passed \in Outcomes(BOOLEAN) :
                          /\ vst' = [vst EXCEPT
                                       !.t = @ + 1,
                                       !.tests = Append(@, TestResult(entry, passed,
                                                           IF passed THEN <<>> ELSE ExitStatus))]
                          /\ vhist' = [vhist EXCEPT !.runs = @ + 1, !.log = Append(@, passed)]

\* The streams a go test -json process can print.
PartialOutputs ==
    {[ok |-> TRUE, lines |-> <<>>],
     [ok |-> FALSE, lines |-> <<[json |-> FALSE, action |-> "", test |-> "", long |-> FALSE]>>],
     [ok |-> TRUE,
      lines |-> <<[json |-> TRUE, action |-> "run", test |-> "T1", long |-> FALSE],
                  [json |-> TRUE, action |-> "pass", test |-> "T1", long |-> FALSE],
                  [json |-> TRUE, action |-> "pass", test |-> "", long |-> FALSE]>>],
     [ok |-> FALSE,
      lines |-> <<[json |-> TRUE, action |-> "pass", test |-> "T1", long |-> FALSE],
                  [json |-> FALSE, action |-> "", test |-> "", long |-> FALSE],
                  [json |-> TRUE, action |-> "fail", test |-> "T2", long |-> FALSE],
                  [json |-> TRUE, action |-> "fail", test |-> "", long |-> FALSE]>>],
     [ok |-> FALSE,
      lines |-> <<[json |-> TRUE, action |-> "pass", test |-> "T1", long |-> FALSE],
                  [json |-> TRUE, action |-> "fail", test |-> "T2", long |-> FALSE],
                  [json |-> TRUE, action |-> "fail", test |-> "T2/a", long |-> FALSE],
                  [json |-> TRUE, action |-> "fail", test |-> "T2/b", long |-> FALSE],
                  [json |-> TRUE, action |-> "skip", test |-> "T3", long |-> FALSE],
                  [json |-> TRUE, action |-> "pass", test |-> "T4", long |-> FALSE],
                  [json |-> TRUE, action |-> "fail", test |-> "T5", long |-> FALSE],
                  [json |-> TRUE, action |-> "fail", test |-> "T6", long |-> FALSE],
                  [json |-> TRUE, action |-> "fail", test |-> "T6/a", long |-> FALSE]>>]}

\* runPartial: one runGoTestJSON per step, then the score.
VPartial ==
    /\ vpc = "partial"
    /\ UNCHANGED engine
    /\ UNCHANGED <<xvars, cfg, gitOut, results, out>>
    /\ IF vst.t > Len(cfg.partial)
       THEN /\ vpc' = "report"
            /\ vst' = [vst EXCEPT !.score = IF Len(cfg.partial) = 0 THEN NoScore
                                            ELSE PartialScore(vst.passed, vst.total)]
            /\ UNCHANGED vhist
       ELSE /\ vpc' = vpc
            /\ LET entry  == cfg.partial[vst.t]
                   parsed == parseTestArgs(fs, WorkspaceDir, entry)
               IN IF ~parsed.ok
                  THEN /\ vst' = [vst EXCEPT
                                    !.t = @ + 1,
                                    !.partial = Append(@, TestResult(entry, FALSE, parsed.error))]
                       /\ UNCHANGED vhist
                  ELSE \E output \in Outcomes(PartialOutputs) :
                          LET counts == parseJSONCounts(output.lines)
                              passed == output.ok
                          IN /\ vst' = [vst EXCEPT
                                          !.t = @ + 1,
                                          !.partial = Append(@, TestResult(entry, passed,
                                                                IF passed THEN <<>> ELSE ExitStatus)),
                                          !.passed = @ + counts.passed,
                                          !.total = @ + counts.total]
                             /\ vhist' = [vhist EXCEPT !.runs = @ + 1, !.log = Append(@, output)]

DeferredCleanup_None(undos) == 0

\* "defer cleanup()": the closures that are still to be called when Run
\* returns, the last one first.
DeferredCleanup(undos) == Len(undos)

\* The report of a full run, its write and the summary; the return value
\* waits for the deferred cleanup.
VReport ==
    /\ vpc = "report"
    /\ UNCHANGED engine
    /\ UNCHANGED <<xvars, cfg, gitOut, out>>
    /\ \E fail \in WriteFaults :
          LET w == WriteReport(RunReport(vst.tests, vst.partial, vst.score), fail) IN
          /\ results' = w.results
          /\ vhist' = [vhist EXCEPT !.files = w.files]
          /\ vst' = [vst EXCEPT !.ret = w.ret, !.printed = w.printed,
                                !.i = DeferredCleanup(vst.undos)]
    /\ vpc' = "cleanup"

cleanupStep_FirstStepFirst(undos, left) == undos[Len(undos) - left + 1]

\* "for i := len(undos) - 1; i >= 0; i--": the closure that is called when
\* left closures are still to be called.
cleanupStep(undos, left) == undos[left]

\* "defer cleanup()": the closures of the steps, last step first, then Run
\* returns.
VCleanup ==
    /\ vpc = "cleanup"
    /\ pc = "idle"
    /\ UNCHANGED <<fs, args, txn, mk, walk, cf, status, handle, hist>>
    /\ UNCHANGED <<xvars, cfg, gitOut, results, vhist>>
    /\ IF vst.i = 0
       THEN /\ out' = [done |-> TRUE, result |-> vst.ret.result, err |-> vst.ret.err]
            /\ vpc' = "done"
            /\ UNCHANGED <<pc, un, closures, vst>>
       ELSE /\ Invoke(cleanupStep(vst.undos, vst.i))
            /\ vst' = [vst EXCEPT !.i = @ - 1]
            /\ UNCHANGED <<vpc, out>>

---------------------------------------------------------------------------
(* The copy engine on its own: one CopyToDir call, then its closure *)

Init ==
    /\ fs \in {Tree(SourceTree \cup ws) : ws \in Workspaces}
    /\ pc = "idle"
    /\ args = NoArgs
    /\ txn = EmptyTxn
    /\ mk = NoMk
    /\ walk = <<>>
    /\ cf = NoCf
    /\ un = NoUn
    /\ closures = <<>>
    /\ status = "none"
    /\ handle = 0
    /\ hist = [pre |-> fs, snap |-> fs, lastop |-> "none", ext |-> FALSE,
               invoked |-> FALSE, rb |-> [over |-> 0, files |-> 0, dirs |-> 0]]
    /\ cfg = NoCfg
    /\ gitOut = <<>>
    /\ vpc = "off"
    /\ vst = NoVst
    /\ results = <<>>
    /\ out = NoOut
    /\ vhist = NewVhist(fs)
    /\ wr = Off
    /\ ra = Off
    /\ rcs = Off
    /\ fn = Off

CopyToDir ==
    /\ vpc = "off"
    /\ UNCHANGED vvars
    /\ \E src \in SrcArgs, dstDir \in DstArgs, overwrite \in BOOLEAN :
           CopyToDirCall(src, dstDir, overwrite)

External ==
    /\ handle \in DOMAIN closures
    /\ \E p \in Written(closures[handle]) : ExtWrite(p)

Next ==
    \/ CopyToDir
    \/ MkdirStep
    \/ DstCheck
    \/ WalkStep
    \/ CfEnsure
    \/ CfStat
    \/ CfChmod
    \/ CfCopy
    \/ BkCreate
    \/ BkCopy
    \/ CfRename
    \/ UndoOver
    \/ RsCopy
    \/ RsRename
    \/ UndoBackupRm
    \/ UndoFiles
    \/ UndoDirs
    \/ InvokeUndo
    \/ External

Spec == Init /\ [][Next]_vars

\* Every path but the root has a directory as its parent.
WellFormed == \A p \in DOMAIN fs : IsDirAt(fs, Parent(p))

---------------------------------------------------------------------------
(* verify.Run on a scenario *)

Step(from, to) == [from |-> from, to |-> to]

Scenario(copy, tests, partial, mustModify, noModify) ==
    [copy |-> copy, tests |-> tests, partial |-> partial, mustModify |-> mustModify,
     noModify |-> noModify, onlyReport |-> FALSE]

AllPackages == <<".", "/", ".", ".", ".">>

\* "./d -run a"b": a valid entry for parseTestTarget, with a quote left open.
OpenQuote == <<".", "/", "d", " ", "-", "r", "u", "n", " ", "a", "\"", "b">>

\* The scenarios verify runs on.
Scenarios ==
    {Scenario(<<>>, <<AllPackages>>, <<>>, <<>>, <<>>),
     Scenario(<<Step(<<"t">>, <<".">>)>>, <<AllPackages>>, <<AllPackages>>, <<<<"s", "u", "b", "/">>>>, <<<<"d">>>>),
     Scenario(<<Step(<<"s", "u", "b">>, <<"s", "u", "b">>), Step(<<"t">>, <<"d", "/", "e">>)>>, <<AllPackages>>, <<>>, <<>>, <<<<"*">>>>),
     Scenario(<<Step(<<"t">>, <<".">>), Step(<<"t">>, <<".", ".", "/", "x">>)>>, <<AllPackages>>, <<>>, <<>>, <<>>),
     Scenario(<<Step(<<"t">>, <<".">>), Step(<<"s", "u", "b">>, <<"s", "u", "b">>)>>, <<>>, <<AllPackages>>, <<<<"s", "u", "b">>>>, <<<<"t">>>>),
     Scenario(<<Step(<<"t">>, <<".">>), Step(<<"t">>, <<".">>)>>, <<AllPackages>>, <<>>, <<>>, <<>>),
     Scenario(<<Step(<<"t">>, <<"s", "u", "b", "/", "b", ".", "e">>)>>, <<AllPackages>>, <<>>, <<<<"s", "u", "b">>, <<"d">>>>, <<<<"s", "u", "b", "/", "?">>, <<"t">>>>),
     Scenario(<<Step(<<"b">>, <<".">>)>>, <<AllPackages>>, <<>>, <<>>, <<>>),
     Scenario(<<Step(<<"t">>, <<".", ".", "/", "w", "x">>)>>, <<>>, <<>>, <<>>, <<>>),
     Scenario(<<>>, <<AllPackages, OpenQuote, AllPackages>>, <<AllPackages, OpenQuote, AllPackages>>, <<>>, <<>>),
     Scenario(<<>>, <<AllPackages>>, <<AllPackages, AllPackages>>, <<>>, <<>>),
     Scenario(<<>>, <<AllPackages>>, <<OpenQuote, AllPackages>>, <<>>, <<>>)}

\* What git diff, git diff --cached and git ls-files --others print.
GitOutputs ==
    {<< <<>>, <<>>, <<>> >>,
     << <<"t", "\n">>, <<>>, <<>> >>,
     << <<"s", "u", "b", "/", "b", "\n">>, <<"s", "u", "b", "/", "b", "\n">>, <<"d", "\n">> >>,
     << <<"t", "\n", "s", "u", "b", "/", "b", "\n">>, <<>>, <<".", "r", "u", "n", "-", "s", "t", "a", "r", "t", ".", "j", "s", "o", "n", "\n">> >>,
     << <<>>, <<>>, <<" ", ".", "r", "u", "n", "-", "p", "r", "o", "g", "r", "e", "s", "s", ".", "j", "s", "o", "n", " ", "\n">> >>}

InitVerify ==
    /\ fs \in {Tree(SourceTree \cup ws) : ws \in Workspaces \cup {{}}}
    /\ pc = "idle"
    /\ args = NoArgs
    /\ txn = EmptyTxn
    /\ mk = NoMk
    /\ walk = <<>>
    /\ cf = NoCf
    /\ un = NoUn
    /\ closures = <<>>
    /\ status = "none"
    /\ handle = 0
    /\ hist = [pre |-> fs, snap |-> fs, lastop |-> "none", ext |-> FALSE,
               invoked |-> FALSE, rb |-> [over |-> 0, files |-> 0, dirs |-> 0]]
    /\ cfg \in {[sc EXCEPT !.onlyReport = o] : sc \in Scenarios, o \in BOOLEAN}
    /\ gitOut \in GitOutputs
    /\ vpc = "start"
    /\ vst = NoVst
    /\ results = <<>>
    /\ out = NoOut
    /\ vhist = NewVhist(fs)
    /\ wr = Off
    /\ ra = Off
    /\ rcs = Off
    /\ fn = Off

NextVerify ==
    \/ VStart
    \/ VAudit
    \/ VGate
    \/ VCopy
    \/ VCopyRet
    \/ VTest
    \/ VPartial
    \/ VReport
    \/ VCleanup
    \/ MkdirStep
    \/ DstCheck
    \/ WalkStep
    \/ CfEnsure
    \/ CfStat
    \/ CfChmod
    \/ CfCopy
    \/ BkCreate
    \/ BkCopy
    \/ CfRename
    \/ UndoOver
    \/ RsCopy
    \/ RsRename
    \/ UndoBackupRm
    \/ UndoFiles
    \/ UndoDirs

SpecVerify == InitVerify /\ [][NextVerify]_vars

---------------------------------------------------------------------------
(* verify.Run called twice on the same workspace *)

\* The caller runs verify again after the first call returned; nothing else
\* touched the workspace in between.
VAgain ==
    /\ vpc = "done"
    /\ pc = "idle"
    /\ vhist.call = 1
    /\ vpc' = "start"
    /\ vst' = NoVst
    /\ out' = NoOut
    /\ status' = "none"
    /\ gitOut' = GitAfter(gitOut, vhist.fs0, fs)
    /\ vhist' = [fs0 |-> fs, copies |-> 0, runs |-> 0, call |-> 2, log |-> <<>>,
                 acts |-> vhist.acts, files |-> vhist.files,
                 first |-> [fs0 |-> vhist.fs0, log |-> vhist.log, out |-> out]]
    /\ UNCHANGED <<fs, pc, args, txn, mk, walk, cf, un, closures, handle, hist>>
    /\ UNCHANGED <<xvars, cfg, results>>

NextRepeat ==
    \/ NextVerify
    \/ VAgain

SpecRepeat == InitVerify /\ [][NextRepeat]_vars

---------------------------------------------------------------------------
(* The audit on a workspace the agent has worked in *)

\* The workspace at HEAD: every file is tracked.
HeadTree ==
    SourceTree \cup
    {W,
     << <<"w", "t">>, FileEntry(<<"head">>, 420) >>,
     << <<"w", "d">>, DirEntry(493) >>,
     << <<"w", "d", "t">>, FileEntry(<<"head">>, 420) >>,
     << <<"w", "sub">>, DirEntry(493) >>,
     << <<"w", "sub", "b">>, FileEntry(<<"head">>, 420) >>,
     << <<"w", "sub", "d">>, DirEntry(493) >>,
     << <<"w", "sub", "d", "t">>, FileEntry(<<"head">>, 420) >>}

\* The must-modify and no-modify rules of the scenarios audited.
AuditRules ==
    {[must |-> <<>>, no |-> <<>>],
     [must |-> <<<<"d">>>>, no |-> <<>>],
     [must |-> <<<<"d", "/">>>>, no |-> <<<<"t">>>>],
     [must |-> <<<<"s", "u", "b">>, <<"d">>>>, no |-> <<<<"*">>>>],
     [must |-> <<<<"s", "u", "b", "/">>, <<"t">>, <<"d">>>>, no |-> <<<<"s", "u", "b", "/", "d", "/", "*">>, <<"s", "u", "b", "/", "?">>>>],
     [must |-> <<<<"d">>>>, no |-> <<<<".", "r", "u", "n", "-", "*">>, <<"*">>>>],
     [must |-> <<<<".", "r", "u", "n", "-", "s", "t", "a", "r", "t", ".", "j", "s", "o", "n">>>>, no |-> <<<<".", "r", "u", "n", "-", "p", "r", "o", "g", "r", "e", "s", "s", ".", "j", "s", "o", "n">>, <<".", "r", "u", "n", "-", "s", "t", "a", "r", "t", ".", "j", "s", "o", "n">>>>],
     [must |-> <<<<"s", "u", "b", "/", "*", "/">>, <<".", "/", "d">>>>, no |-> <<<<"s", "u", "b">>, <<"s", "u", "b">>>>],
     [must |-> <<<<"d">>, <<"d">>>>, no |-> <<<<"?", "/">>>>],
     [must |-> <<<<"s", "u", "b", "/", "d">>>>, no |-> <<<<"t", "/">>, <<"s", "u", "b", "/">>>>],
     [must |-> <<<<"d", "/", "[">>>>, no |-> <<<<"s", "u", "b", "/", "*">>, <<"t", "[">>>>],
     [must |-> <<<<"[", "^", "t", "]">>>>, no |-> <<<<"s", "u", "b", "[", "^", "x", "]", "b">>>>]}

\* The files the agent modifies, creates, deletes.
AgentModifies == {<<"w", "t">>, <<"w", "d", "t">>, <<"w", "sub", "d", "t">>}

AgentCreates == {<<"w", "d", "b">>, <<"w", "sub", "d", "b">>}

AgentDeletes == {<<"w", "d", "t">>, <<"w", "sub", "b">>}

Bookkeeping == {<<"w", ".run-start.json">>, <<"w", ".run-progress.json">>}

\* One more line in the output of git query q.
GitPrints(q, p) == [gitOut EXCEPT ![q] = @ \o PathString(p) \o <<"\n">>]

Act(kind, p) == [kind |-> kind, path |-> p]

RECURSIVE Prune(_, _)
\* Remove the directory d and its ancestors below the workspace while empty
\* (what git rm and rm -r of the directory leave).
Prune(f, d) ==
    IF Len(d) > 1 /\ IsDirAt(f, d) /\ Children(f, d) = {}
    THEN Prune(Drop(f, d), Parent(d))
    ELSE f

AgentFrame ==
    /\ vpc = "agent"
    /\ Len(vhist.acts) < MaxActions
    /\ UNCHANGED <<pc, args, txn, mk, walk, cf, un, closures, status, handle, hist>>
    /\ UNCHANGED <<xvars, cfg, vpc, vst, results, out>>

\* The agent edits a tracked file: git diff lists it.
AgentModify ==
    /\ AgentFrame
    /\ \E p \in AgentModifies :
          /\ IsFileAt(fs, p)
          /\ fs[p] = vhist.fs0[p]
          /\ fs' = Put(fs, p, FileEntry(<<"agent">>, fs[p].mode))
          /\ gitOut' = GitPrints(1, p)
          /\ vhist' = [vhist EXCEPT !.acts = Append(@, Act("modify", p))]

\* The agent adds a file: git ls-files --others lists it.
AgentCreate ==
    /\ AgentFrame
    /\ \E p \in AgentCreates :
          /\ Stat(fs, p) = "ENOENT"
          /\ IsDirAt(fs, Parent(p))
          /\ \A i \in DOMAIN vhist.acts : vhist.acts[i].path # p
          /\ fs' = Put(fs, p, FileEntry(<<"agent">>, 420))
          /\ gitOut' = GitPrints(3, p)
          /\ vhist' = [vhist EXCEPT !.acts = Append(@, Act("create", p))]

\* The agent deletes a tracked file, with rm (git diff lists it) or git rm
\* (git diff --cached lists it); the directory it leaves empty stays or goes.
AgentDelete ==
    /\ AgentFrame
    /\ \E p \in AgentDeletes, staged \in BOOLEAN, prune \in BOOLEAN :
          /\ IsFileAt(fs, p)
          /\ fs[p] = vhist.fs0[p]
          /\ fs' = IF prune THEN Prune(Drop(fs, p), Parent(p)) ELSE Drop(fs, p)
          /\ gitOut' = GitPrints(IF staged THEN 2 ELSE 1, p)
          /\ vhist' = [vhist EXCEPT !.acts = Append(@, Act("delete", p))]

\* The orchestrator writes .run-start.json or .run-progress.json: untracked.
AgentBookkeeping ==
    /\ AgentFrame
    /\ \E p \in Bookkeeping :
          /\ fs' = Put(fs, p, FileEntry(<<"run">>, 420))
          /\ gitOut' = IF p \in DOMAIN fs THEN gitOut ELSE GitPrints(3, p)
          /\ vhist' = [vhist EXCEPT !.acts = Append(@, Act("bookkeeping", p))]

\* checkModificationRules on the workspace as the agent left it.
Audit ==
    /\ vpc = "agent"
    /\ vpc' = "audited"
    /\ vst' = [vst EXCEPT !.problems = checkModificationRules(fs, cfg, WorkspaceDir, gitOut)]
    /\ UNCHANGED engine
    /\ UNCHANGED <<xvars, cfg, gitOut, results, out, vhist>>

InitAudit ==
    /\ fs = Tree(HeadTree)
    /\ pc = "idle"
    /\ args = NoArgs
    /\ txn = EmptyTxn
    /\ mk = NoMk
    /\ walk = <<>>
    /\ cf = NoCf
    /\ un = NoUn
    /\ closures = <<>>
    /\ status = "none"
    /\ handle = 0
    /\ hist = [pre |-> fs, snap |-> fs, lastop |-> "none", ext |-> FALSE,
               invoked |-> FALSE, rb |-> [over |-> 0, files |-> 0, dirs |-> 0]]
    /\ cfg \in {[NoCfg EXCEPT !.mustModify = r.must, !.noModify = r.no] : r \in AuditRules}
    /\ gitOut = << <<>>, <<>>, <<>> >>
    /\ vpc = "agent"
    /\ vst = NoVst
    /\ results = <<>>
    /\ out = NoOut
    /\ vhist = NewVhist(fs)
    /\ wr = Off
    /\ ra = Off
    /\ rcs = Off
    /\ fn = Off

NextAudit ==
    \/ AgentModify
    \/ AgentCreate
    \/ AgentDelete
    \/ AgentBookkeeping
    \/ Audit

SpecAudit == InitAudit /\ [][NextAudit]_vars

---------------------------------------------------------------------------
(* Properties of the copy engine *)

PreFiles == {p \in DOMAIN hist.pre : hist.pre[p].kind = "file"}

PreDirs == {p \in DOMAIN hist.pre : hist.pre[p].kind = "dir"}

Returned == pc = "idle" /\ status # "none"

\* The closure of a successful call has run once and nothing else wrote since.
Reversed == Returned /\ status = "ok" /\ hist.invoked /\ ~hist.ext

\* The source entry CopyToDir copies to destination path p (<<>> if none).
SourceOf(p) ==
    IF IsDirAt(hist.pre, args.src)
    THEN IF IsUnder(args.dstDir, p)
         THEN JoinPath(args.src, SubSeq(p, Len(args.dstDir) + 1, Len(p)))
         ELSE <<>>
    ELSE IF p = JoinPath(args.dstDir, <<BaseName(args.src)>>) THEN args.src ELSE <<>>

C4_SecondInvocationIsNoop ==
    hist.lastop = "reundo" => (pc = "idle" /\ fs = hist.snap)

\* The closure was invoked again after another write to a path it had removed.
C4_Witness ==
    /\ hist.lastop = "reundo"
    /\ hist.ext
    /\ \E p \in Written(closures[handle]) : p \notin DOMAIN hist.pre /\ p \in DOMAIN fs

\* C5: during a CopyToDir call and during its reversal, every destination path
\* that is not a temp file holds either the complete entry it had before the
\* call or the complete source file; partial data is in temp files only.
C5_NoPartialDestination ==
    ~hist.ext =>
        \A p \in DOMAIN fs :
            (fs[p].kind = "file" /\ ~IsTemp(p)) =>
                \/ (p \in PreFiles /\ fs[p] = hist.pre[p])
                \/ (SourceOf(p) \in PreFiles /\ fs[p] = hist.pre[SourceOf(p)])

\* A temp file holds half of the new content while the existing destination
\* still holds the old content.
C5_Witness ==
    /\ pc = "cf_copy"
    /\ cf.destExists
    /\ cf.off = 1
    /\ Len(fs[cf.tmp].data) < Len(fs[cf.src].data)

\* A component of dstDir (dstDir itself or an ancestor) was a file before the call.
FileOnDstPath ==
    \E k \in 1..Len(args.dstDir) : IsFileAt(hist.pre, SubSeq(args.dstDir, 1, k))

\* C6: when dstDir or one of its ancestors exists as a non-directory, the call
\* returns an error and mutates nothing.
C6_FileComponentFails ==
    (hist.lastop # "none" /\ FileOnDstPath) =>
        /\ fs = hist.pre
        /\ Returned => status = "err"

\* An ancestor of dstDir is a file, and the call has returned.
C6_Witness ==
    /\ Returned
    /\ FileOnDstPath
    /\ ~IsFileAt(hist.pre, args.dstDir)
    /\ IsFileAt(hist.pre, Parent(args.dstDir))

\* A source file maps onto a file that existed before the call.
Collides ==
    \E p \in PreFiles : SourceOf(p) \in PreFiles

---------------------------------------------------------------------------
(* Properties of verify.Run *)

\* Run has returned after at least one CopyToDir call of a copy step.
ReturnedAfterCopy == out.done /\ vhist.copies > 0

\* C3: once verify.Run has started applying the copy steps, whenever it
\* returns (tests passed or failed, a later copy step failed, the report write
\* failed) every path a copy step created is gone and every file a copy step
\* overwrote has the content and mode it had before the injection.
C3_ReturnRemovesInjectedFiles ==
    ReturnedAfterCopy =>
        /\ \A p \in DOMAIN fs : p \in DOMAIN vhist.fs0
        /\ \A p \in DOMAIN vhist.fs0 :
              vhist.fs0[p].kind = "file" => p \in DOMAIN fs /\ fs[p] = vhist.fs0[p]

\* The gate found a violation in this call.
GateViolated == vpc # "start" /\ Len(vst.problems) > 0

\* C9: when the audit gate finds a violation, Run performs no copy step and
\* starts no test process, and the filesystem stays as the call found it.
C9_GateViolationTouchesNothing ==
    GateViolated =>
        /\ vhist.copies = 0
        /\ vhist.runs = 0
        /\ closures = <<>>
        /\ fs = vhist.fs0

C9_Witness ==
    /\ out.done
    /\ GateViolated
    /\ Len(cfg.copy) > 0
    /\ Len(cfg.tests) > 0
    /\ out.err = "nil"

IsSortedStrings(ss) == \A i, j \in DOMAIN ss : i < j => ~StrLess(ss[j], ss[i])

\* The report the gate promises: failed, no score, no partial results, one
\* failing result whose error is the violations, sorted, one per line.
GateOutcome ==
    /\ out.err = "nil"
    /\ ~out.result.nil
    /\ ~out.result.success
    /\ ~out.result.score.set
    /\ out.result.partial = <<>>
    /\ Len(out.result.tests) = 1
    /\ ~out.result.tests[1].passed
    /\ LET lines == Split(out.result.tests[1].error, "\n") IN
       /\ Len(lines) = Len(vst.problems)
       /\ {lines[i] : i \in DOMAIN lines} = {vst.problems[i] : i \in DOMAIN vst.problems}
       /\ IsSortedStrings(lines)

---------------------------------------------------------------------------
(* Properties of repeated verify calls *)

\* The second call has returned.
SecondReturned == vhist.call = 2 /\ out.done

\* C11: two consecutive verify.Run calls on a workspace nothing else changes
\* produce equal reports (timestamps and run id are not in the model's report),
\* and the tree after the second call is the tree before the first call.
C11_VerifyTwiceSameReportSameTree ==
    SecondReturned =>
        /\ (~out.result.nil /\ ~vhist.first.out.result.nil) => out.result = vhist.first.out.result
        /\ fs = vhist.first.fs0

---------------------------------------------------------------------------
(* Properties of the audit *)

Audited == vpc = "audited"

IsGlobRule(rule) == ContainsAny(rule, {"*", "?", "["})

\* The must-modify entries that name the directory dir of the workspace.
RulesNaming(dir) ==
    {i \in DOMAIN cfg.mustModify :
        ~IsGlobRule(cfg.mustModify[i]) /\ Clean(cfg.mustModify[i]) = PathString(dir)}

Reported(rule) ==
    \E i \in DOMAIN vst.problems : vst.problems[i] = rule \o MsgNotModified

\* The agent did one thing: it modified, created or deleted a file directly in
\* a directory that exists at HEAD.
OneChangeInDir(dir) ==
    /\ Len(vhist.acts) = 1
    /\ vhist.acts[1].kind \in {"modify", "create", "delete"}
    /\ Parent(vhist.acts[1].path) = dir
    /\ Len(dir) > 1
    /\ dir \in DOMAIN vhist.fs0

\* C12: for a must-modify rule naming a directory that exists at HEAD, each of
\* modifying a tracked file in it, creating an untracked file in it, deleting
\* a tracked file in it, alone, satisfies the rule, in every workspace state
\* the action can leave.
C12_ChangeInDirSatisfiesRule ==
    Audited =>
        \A dir \in DOMAIN vhist.fs0 :
            OneChangeInDir(dir) =>
                \A i \in RulesNaming(dir) : ~Reported(cfg.mustModify[i])

\* The paths the agent changed, relative to the workspace, without the
\* bookkeeping files of the run.
ChangedByAgent ==
    {PathString(vhist.acts[i].path) :
        i \in {j \in DOMAIN vhist.acts : vhist.acts[j].path \notin Bookkeeping}}

Unmatched ==
    {i \in DOMAIN cfg.mustModify :
        \A p \in ChangedByAgent : ~pathMatchesRule(fs, p, cfg.mustModify[i], WorkspaceDir)}

NotModifiedProblems ==
    {i \in DOMAIN vst.problems : HasSuffix(vst.problems[i], MsgNotModified)}

\* C13: when the changed set is not empty, a must-modify entry is reported as
\* not modified exactly when no changed path matches it, and there is one such
\* message per unmatched entry.
C13_NotModifiedIffUnmatched ==
    (Audited /\ ChangedByAgent # {}) =>
        /\ \A i \in DOMAIN cfg.mustModify : Reported(cfg.mustModify[i]) <=> i \in Unmatched
        /\ Cardinality(NotModifiedProblems) = Cardinality(Unmatched)

\* Two changes, the second in path order matching an entry the first does
\* not, and another entry matched by neither.
C13_Witness ==
    /\ Audited
    /\ Cardinality(ChangedByAgent) = 2
    /\ Unmatched # {}
    /\ \E i \in DOMAIN cfg.mustModify :
          /\ i \notin Unmatched
          /\ ~Reported(cfg.mustModify[i])
          /\ \E p, q \in ChangedByAgent :
                /\ StrLess(p, q)
                /\ ~pathMatchesRule(fs, p, cfg.mustModify[i], WorkspaceDir)
                /\ pathMatchesRule(fs, q, cfg.mustModify[i], WorkspaceDir)

\* The rules of the scenario, must-modify and no-modify.
ConfiguredRules ==
    {cfg.mustModify[i] : i \in DOMAIN cfg.mustModify}
        \cup {cfg.noModify[i] : i \in DOMAIN cfg.noModify}

\* A rule that names an existing directory of the workspace or ends with a
\* path separator.
DirScoped(rule) ==
    /\ ~IsBlank(rule)
    /\ \/ rule[Len(rule)] = "/"
       \/ IsDirAt(fs, FsPath(Join(WorkspaceDir, Clean(rule))))

FileNames == {<<"t">>, <<"b">>, <<"x">>}

DirNames == {<<"d">>, <<"s", "u", "b">>}

\* path is below directory d, and not directly in it.
DeepBelow(path, d) ==
    /\ d = Dot \/ HasPrefix(path, d \o Slash)
    /\ Dir(path) # d
    /\ path # d

DirectChildrenOnly(rule) ==
    LET d == Clean(rule) IN
    /\ \A x \in FileNames : pathMatchesRule(fs, Join(d, x), rule, WorkspaceDir)
    /\ \A n \in DirNames, x \in FileNames :
          /\ ~pathMatchesRule(fs, Join(Join(d, n), x), rule, WorkspaceDir)
          /\ ~pathMatchesRule(fs, Join(Join(Join(d, n), n), x), rule, WorkspaceDir)

OnlyDeepChange(rule) ==
    /\ Cardinality(ChangedByAgent) = 1
    /\ \A p \in ChangedByAgent : DeepBelow(p, Clean(rule))

\* C14 as stated: a rule that names an existing workspace directory or ends
\* with a separator matches the paths directly in the directory and none
\* deeper, so a must-modify rule of that kind is reported when the only change
\* is two levels below.
C14_DirRuleMatchesDirectChildrenOnly ==
    Audited =>
        /\ \A rule \in ConfiguredRules : DirScoped(rule) => DirectChildrenOnly(rule)
        /\ \A i \in DOMAIN cfg.mustModify :
              (DirScoped(cfg.mustModify[i]) /\ OnlyDeepChange(cfg.mustModify[i]))
                  => Reported(cfg.mustModify[i])

\* C14 (amended): the same for the rules without a glob metacharacter; a rule
\* with one of * ? [ is handed to filepath.Match whatever it ends with.
C14_PlainDirRuleMatchesDirectChildrenOnly ==
    Audited =>
        /\ \A rule \in ConfiguredRules :
              (DirScoped(rule) /\ ~IsGlobRule(rule)) => DirectChildrenOnly(rule)
        /\ \A i \in DOMAIN cfg.mustModify :
              (/\ DirScoped(cfg.mustModify[i])
               /\ ~IsGlobRule(cfg.mustModify[i])
               /\ OnlyDeepChange(cfg.mustModify[i]))
                  => Reported(cfg.mustModify[i])

\* The only change is sub/d/..., and the must-modify rule sub, an existing
\* directory named without a separator, is reported.
C14_Witness ==
    /\ Audited
    /\ \E i \in DOMAIN cfg.mustModify :
          LET rule == cfg.mustModify[i] IN
          /\ ~IsGlobRule(rule)
          /\ rule[Len(rule)] # "/"
          /\ DirScoped(rule)
          /\ OnlyDeepChange(rule)
          /\ Reported(rule)

BookkeepingChanged ==
    {PathString(vhist.acts[i].path) :
        i \in {j \in DOMAIN vhist.acts : vhist.acts[j].path \in Bookkeeping}}

C16_BookkeepingNeverCounts ==
    Audited =>
        /\ \A b \in BookkeepingChanged, i \in DOMAIN vst.problems :
              vst.problems[i] # b \o MsgBlocked
        /\ \A i \in Unmatched :
              Reported(cfg.mustModify[i]) \/ vst.problems = <<MsgNoChanges>>

\* A bookkeeping file and another file changed; a no-modify rule matches the
\* bookkeeping file, a must-modify rule names it and is reported.
C16_Witness ==
    /\ Audited
    /\ ChangedByAgent # {}
    /\ \E b \in BookkeepingChanged :
          /\ matchesPathRule(fs, b, cfg.noModify, WorkspaceDir)
          /\ \E i \in DOMAIN cfg.mustModify : cfg.mustModify[i] = b /\ Reported(b)

---------------------------------------------------------------------------
(* Properties of the test runs of verify.Run *)

\* Run returned the report of a full run: the gate passed, nothing failed
\* before or at the write of the report.
FullReport == out.done /\ out.err = "nil" /\ ~out.result.nil /\ vst.problems = <<>>

\* C17: when the gate passes, the report says Success exactly when every
\* required test passed (none configured counts as passed) and the partial
\* score is absent or equal to 1.
C17_SuccessIffRequiredAndPartial ==
    FullReport =>
        (out.result.success <=>
            /\ \A i \in DOMAIN out.result.tests : out.result.tests[i].passed
            /\ \/ ~out.result.score.set
               \/ out.result.score.num = out.result.score.den)

\* Every required test passed, a partial score below 1 is present, and the
\* report is not a success.
C17_Witness ==
    /\ FullReport
    /\ out.result.tests # <<>>
    /\ \A i \in DOMAIN out.result.tests : out.result.tests[i].passed
    /\ out.result.score.set
    /\ out.result.score.num > 0
    /\ out.result.score.num < out.result.score.den
    /\ ~out.result.success

\* The events the partial targets of this call printed, from the log of the
\* processes: a list of [passed, failed] per process.
RECURSIVE EventCount(_, _)
EventCount(lines, action) ==
    IF lines = <<>> THEN 0
    ELSE (IF Head(lines).json /\ Head(lines).test # "" /\ Head(lines).action = action
          THEN 1 ELSE 0) + EventCount(Tail(lines), action)

RECURSIVE SumEvents(_, _)
SumEvents(log, action) ==
    IF log = <<>> THEN 0
    ELSE EventCount(Head(log).lines, action) + SumEvents(Tail(log), action)

\* The processes of the partial targets come after those of the required
\* targets, one per target that parses.
PartialLog ==
    LET required == Cardinality({i \in DOMAIN cfg.tests : parseTestArgs(fs, WorkspaceDir, cfg.tests[i]).ok})
    IN SubSeq(vhist.log, required + 1, Len(vhist.log))

PassEvents == SumEvents(PartialLog, "pass")

FailEvents == SumEvents(PartialLog, "fail")

PastTests ==
    \/ vpc \in {"report", "cleanup"}
    \/ vpc = "done" /\ vst.problems = <<>> /\ vst.ret # NoVst.ret

\* rs holds one result per entry, in the order of the entries.
OnePerTarget(rs, entries) ==
    /\ Len(rs) = Len(entries)
    /\ \A i \in DOMAIN entries : rs[i].name = entries[i]

\* The entries shellwords cannot split: a quote or an escape is left open.
Unparseable(entries) ==
    {i \in DOMAIN entries : ~ShellwordsParse(TrimSpace(entries[i])).ok}

\* C19: every required and every partial target has exactly one result, in
\* configuration order, whatever happened to the targets before it; a target
\* that cannot be parsed has Passed = false and the parse error as Error and
\* starts no process; a failure of a test run never makes Run return an error.
C19_OneResultPerTarget ==
    PastTests =>
        /\ OnePerTarget(vst.tests, cfg.tests)
        /\ OnePerTarget(vst.partial, cfg.partial)
        /\ \A i \in Unparseable(cfg.tests) :
              ~vst.tests[i].passed /\ vst.tests[i].error = ErrInvalidCommandLine
        /\ \A i \in Unparseable(cfg.partial) :
              ~vst.partial[i].passed /\ vst.partial[i].error = ErrInvalidCommandLine
        /\ vhist.runs = Len(cfg.tests) + Len(cfg.partial)
                          - Cardinality(Unparseable(cfg.tests))
                          - Cardinality(Unparseable(cfg.partial))
        /\ out.done =>
              /\ out.err \in {"nil", "write"}
              /\ cfg.onlyReport => out.err = "nil"
              /\ out.err = "nil" =>
                    /\ ~out.result.nil
                    /\ out.result.tests = vst.tests
                    /\ out.result.partial = vst.partial

\* The first required target failed its tests, the second could not be
\* parsed, the third ran and passed; the same among the partial targets; Run
\* returned the report.
C19_Witness ==
    /\ PastTests
    /\ out.done
    /\ out.err = "nil"
    /\ Len(out.result.tests) = 3
    /\ 2 \in Unparseable(cfg.tests)
    /\ out.result.tests[1].error = ExitStatus
    /\ out.result.tests[2].error = ErrInvalidCommandLine
    /\ out.result.tests[3].passed
    /\ Len(out.result.partial) = 3
    /\ 2 \in Unparseable(cfg.partial)
    /\ ~out.result.partial[1].passed
    /\ out.result.partial[3].passed
    /\ vhist.runs = 4

---------------------------------------------------------------------------
(* Properties of the report file *)

\* path is results/<scenario>/<date>-<run>-<agent>-<model>.verify.json: a file
\* directly in the scenario's directory of the results, its name made of the
\* date and three non-empty parts.
IsReportPath(path) ==
    LET name  == Base(path)
        stem  == SubSeq(name, 1, Len(name) - Len(<<".", "v", "e", "r", "i", "f", "y", ".", "j", "s", "o", "n">>))
        parts == Split(SubSeq(stem, Len(Today) + 2, Len(stem)), "-")
    IN /\ Dir(path) = ResultsDir \o Slash \o ScenarioName
       /\ HasSuffix(name, <<".", "v", "e", "r", "i", "f", "y", ".", "j", "s", "o", "n">>)
       /\ HasPrefix(name, Today \o <<"-">>)
       /\ Len(parts) = 3
       /\ \A i \in DOMAIN parts : parts[i] # <<>> /\ ~IsBlank(parts[i])

\* C20 as stated: a call with OnlyReport writes no file; a call without it
\* writes exactly one report file results/<scenario>/<date>-<runid>-<agent>-
\* <model>.verify.json.
C20_OneReportFilePerCall ==
    out.done =>
        IF cfg.onlyReport
        THEN vhist.files = <<>> /\ results = <<>>
        ELSE /\ Len(vhist.files) = 1
             /\ IsReportPath(vhist.files[1])
             /\ Len(results) = 1

\* C20 (amended): a call with OnlyReport writes no file, whether the gate
\* failed or the tests ran; a call without it that returns a report wrote
\* exactly one file, of that name; a call that returns an error wrote no
\* report: no file at all when it failed before the report step, at most the
\* one file, incomplete, when the write itself failed.
C20_OneReportFilePerReport ==
    out.done =>
        IF cfg.onlyReport
        THEN vhist.files = <<>> /\ results = <<>>
        ELSE IF out.err = "nil"
        THEN /\ Len(vhist.files) = 1
             /\ IsReportPath(vhist.files[1])
             /\ results = <<out.result>>
        ELSE /\ results = <<>>
             /\ Len(vhist.files) <= 1
             /\ \A i \in DOMAIN vhist.files : IsReportPath(vhist.files[i])
             /\ out.err # "write" => vhist.files = <<>>

\* A full run without OnlyReport, the run metadata read from .run-start.json
\* with a model name holding a separator: one file was written.
C20_Witness ==
    /\ out.done
    /\ ~cfg.onlyReport
    /\ out.err = "nil"
    /\ vst.problems = <<>>
    /\ ~readRunStart.nil
    /\ Len(vhist.files) = 1
    /\ Base(vhist.files[1]) = Today \o <<"-", "r", "1", "-", "a", "g", "e", "n", "t", "-", "m", "_", "1", ".", "v", "e", "r", "i", "f", "y", ".", "j", "s", "o", "n">>
    /\ results = <<out.result>>

---------------------------------------------------------------------------
(* writeReport on a report in memory *)

\* The variables of the copy engine and of verify.Run.
ovars == <<fs, pc, args, txn, mk, walk, cf, un, closures, status, handle, hist,
           cfg, gitOut, vpc, vst, results, out, vhist>>

\* Neither the copy engine nor verify.Run is running.
AtRest ==
    /\ fs = Tree(SourceTree)
    /\ pc = "idle"
    /\ args = NoArgs
    /\ txn = EmptyTxn
    /\ mk = NoMk
    /\ walk = <<>>
    /\ cf = NoCf
    /\ un = NoUn
    /\ closures = <<>>
    /\ status = "none"
    /\ handle = 0
    /\ hist = [pre |-> fs, snap |-> fs, lastop |-> "none", ext |-> FALSE,
               invoked |-> FALSE, rb |-> [over |-> 0, files |-> 0, dirs |-> 0]]
    /\ cfg = NoCfg
    /\ gitOut = <<>>
    /\ vpc = "off"
    /\ vst = NoVst
    /\ results = <<>>
    /\ out = NoOut
    /\ vhist = NewVhist(fs)

MaxTranscripts == 2

\* The transcripts a run progress can hold.
TranscriptLists ==
    UNION {[1..n -> {"t1", "t2"}] : n \in 0..MaxTranscripts}

\* A *types.RunProgress and a *types.VerificationReport are addresses in the
\* heap, 0 is nil; the heap is the sequence of the structs allocated.
Progresses ==
    {[notes |-> n, transcripts |-> ts] : n \in {"", "n"}, ts \in TranscriptLists}

Reports(progress) ==
    {[runID |-> r, success |-> ok, progress |-> progress] :
        r \in {"", "r1"}, ok \in BOOLEAN}

\* The heaps writeReport is called on: a report without progress at address
\* 1, or a progress at address 1 and the report pointing to it at address 2.
Heaps ==
    {<<r>> : r \in Reports(0)}
        \cup {<<p, r>> : p \in Progresses, r \in Reports(1)}

progressWithoutTranscripts_InPlace(heap, progress) ==
    IF progress = 0 THEN [heap |-> heap, addr |-> 0]
    ELSE [heap |-> [heap EXCEPT ![progress].transcripts = <<>>], addr |-> progress]

\* progressWithoutTranscripts: [heap, addr] of the clone.
progressWithoutTranscripts(heap, progress) ==
    IF progress = 0 THEN [heap |-> heap, addr |-> 0]
    ELSE LET clone == [heap[progress] EXCEPT !.transcripts = <<>>]
         IN [heap |-> Append(heap, clone), addr |-> Len(heap) + 1]

\* reportWithoutTranscripts: [heap, addr] of the clone.
reportWithoutTranscripts(heap, report) ==
    IF report = 0 THEN [heap |-> heap, addr |-> 0]
    ELSE LET p     == progressWithoutTranscripts(heap, heap[report].progress)
             clone == [heap[report] EXCEPT !.progress = p.addr]
         IN [heap |-> Append(p.heap, clone), addr |-> Len(p.heap) + 1]

NoProgress == [nil |-> TRUE, notes |-> "", transcripts |-> <<>>]

\* json.MarshalIndent of the report at an address: the struct with the
\* progress it points to.
Marshal(heap, report) ==
    [runID    |-> heap[report].runID,
     success  |-> heap[report].success,
     progress |-> IF heap[report].progress = 0 THEN NoProgress
                  ELSE [nil         |-> FALSE,
                        notes       |-> heap[heap[report].progress].notes,
                        transcripts |-> heap[heap[report].progress].transcripts]]

NoFile == [written |-> FALSE, data |-> Marshal(<<[runID |-> "", success |-> FALSE, progress |-> 0]>>, 1)]

\* writeReport is called with the report at the last address of the heap.
InitReport ==
    /\ AtRest
    /\ \E heap \in Heaps :
          wr = [pc |-> "clean", heap |-> heap, heap0 |-> heap, report |-> Len(heap),
                clean |-> 0, file |-> NoFile, err |-> "nil"]
    /\ ra = Off
    /\ rcs = Off
    /\ fn = Off

\* cleanReport := reportWithoutTranscripts(report)
WrClean ==
    /\ wr.pc = "clean"
    /\ LET c == reportWithoutTranscripts(wr.heap, wr.report) IN
       wr' = [wr EXCEPT !.pc = "write", !.heap = c.heap, !.clean = c.addr]
    /\ UNCHANGED <<ovars, ra, rcs, fn>>

\* MkdirAll, MarshalIndent of the clean report, WriteFile.
WrWrite ==
    /\ wr.pc = "write"
    /\ \E fail \in WriteFaults :
          wr' = [wr EXCEPT
                   !.pc = "done",
                   !.err = IF fail = "none" THEN "nil" ELSE "write",
                   !.file = IF fail = "none"
                            THEN [written |-> TRUE, data |-> Marshal(wr.heap, wr.clean)]
                            ELSE @]
    /\ UNCHANGED <<ovars, ra, rcs, fn>>

NextReport ==
    \/ WrClean
    \/ WrWrite

SpecReport == InitReport /\ [][NextReport]_vars

\* The report passed to writeReport reads as it did before the call.
ReportUntouched ==
    /\ SubSeq(wr.heap, 1, Len(wr.heap0)) = wr.heap0
    /\ Marshal(wr.heap, wr.report) = Marshal(wr.heap0, wr.report)

\* C21: the report writeReport writes carries no transcripts in its run
\* progress and is otherwise the report it was given; the report in memory,
\* its Progress.Transcripts included, is left as it was.
C21_WrittenWithoutTranscripts ==
    wr.pc \in {"write", "done"} =>
        /\ ReportUntouched
        /\ wr.file.written =>
              /\ wr.file.data.progress.transcripts = <<>>
              /\ wr.file.data =
                    [Marshal(wr.heap0, wr.report) EXCEPT !.progress.transcripts = <<>>]

\* A report whose progress holds two transcripts was written: the file has
\* none, the report in memory still has both.
C21_Witness ==
    /\ wr.pc = "done"
    /\ wr.file.written
    /\ wr.heap[wr.report].progress # 0
    /\ Len(wr.heap[wr.heap[wr.report].progress].transcripts) = 2
    /\ ~wr.file.data.progress.nil
    /\ wr.file.data.progress.transcripts = <<>>

---------------------------------------------------------------------------
(* runAgent: the run files, the turns of the agent, the verification between *)

maxContinues == 3

RunStartPath == <<"w", ".run-start.json">>

RunProgressPath == <<"w", ".run-progress.json">>

\* What the agent runner can return: the outcome (nil, or with a nil
\* progress, or with a progress, of a manual agent or not) and the error.
RunnerOutcomes ==
    {[nil |-> FALSE, progress |-> TRUE,  manual |-> FALSE, err |-> FALSE],
     [nil |-> FALSE, progress |-> TRUE,  manual |-> TRUE,  err |-> FALSE],
     [nil |-> FALSE, progress |-> TRUE,  manual |-> FALSE, err |-> TRUE],
     [nil |-> FALSE, progress |-> FALSE, manual |-> FALSE, err |-> TRUE],
     [nil |-> TRUE,  progress |-> FALSE, manual |-> FALSE, err |-> TRUE]}

\* What the verify runner can return: an error, no report, a report.
VerifyOutcomes ==
    {[err |-> TRUE,  report |-> FALSE, success |-> FALSE],
     [err |-> FALSE, report |-> FALSE, success |-> FALSE],
     [err |-> FALSE, report |-> TRUE,  success |-> FALSE],
     [err |-> FALSE, report |-> TRUE,  success |-> TRUE]}

\* The scenario workspaces runAgent can find: none, a fresh one, one with
\* the files of an earlier run.
OldRunFile == FileEntry(<<"old">>, 420)

RunWorkspaces ==
    {{},
     {W},
     {W, <<RunStartPath, OldRunFile>>},
     {W, <<RunProgressPath, OldRunFile>>},
     {W, <<RunStartPath, OldRunFile>>, <<RunProgressPath, OldRunFile>>}}

NoOutcome == [nil |-> TRUE, progress |-> FALSE, manual |-> FALSE, err |-> FALSE]

RunExists_Never(f, path) == FALSE

\* "if _, err := os.Stat(path); err == nil"
RunExists(f, path) == Stat(f, path) \in {"file", "dir"}

RunFailed_Ignored(outcome) == FALSE

\* "if runErr != nil"
RunFailed(outcome) == outcome.err

Succeeded_Never(verRes) == FALSE

\* "if verRes != nil && verRes.Report != nil { success = verRes.Report.Success }"
Succeeded(verRes) == verRes.report /\ verRes.success

\* The variables runAgent leaves alone.
nonAgent == <<pc, args, txn, mk, walk, cf, un, closures, status, handle, hist,
              cfg, gitOut, vpc, vst, results, out, vhist, wr, rcs, fn>>

InitAgent ==
    /\ fs \in {Tree(SourceTree \cup ws) : ws \in RunWorkspaces}
    /\ pc = "idle"
    /\ args = NoArgs
    /\ txn = EmptyTxn
    /\ mk = NoMk
    /\ walk = <<>>
    /\ cf = NoCf
    /\ un = NoUn
    /\ closures = <<>>
    /\ status = "none"
    /\ handle = 0
    /\ hist = [pre |-> fs, snap |-> fs, lastop |-> "none", ext |-> FALSE,
               invoked |-> FALSE, rb |-> [over |-> 0, files |-> 0, dirs |-> 0]]
    /\ cfg = NoCfg
    /\ gitOut = <<>>
    /\ vpc = "off"
    /\ vst = NoVst
    /\ results = <<>>
    /\ out = NoOut
    /\ vhist = NewVhist(fs)
    /\ wr = Off
    /\ rcs = Off
    /\ fn = Off
    /\ \E allow \in BOOLEAN, onlyStart \in BOOLEAN :
          ra = [pc |-> "start",
                allow |-> allow,              \* sc.Agent.AllowMultipleTurnsOnFailedVerify
                onlyStart |-> onlyStart,
                allowContinues |-> FALSE,
                continuesUsed |-> 0,
                turn |-> 0,
                outcome |-> NoOutcome,
                err |-> "running",            \* what runAgent returned
                fs0 |-> fs,                   \* history: the tree at the call
                log |-> <<>>]                 \* history: runner and verify calls, writes

\* "return err"
RaReturn(r, err) == [r EXCEPT !.pc = "done", !.err = err]

Event(ev, turn, info) == [ev |-> ev, turn |-> turn, info |-> info]

\* The checks before the run: the workspace, the files of an earlier run,
\* the version of the agent.
RaStart ==
    /\ ra.pc = "start"
    /\ UNCHANGED <<fs, nonAgent>>
    /\ IF Stat(fs, FsPath(WorkspaceDir)) \notin {"file", "dir"}
       THEN ra' = RaReturn(ra, "scenario not set up")
       ELSE IF RunExists(fs, RunStartPath)
       THEN ra' = RaReturn(ra, "run already exists")
       ELSE IF RunExists(fs, RunProgressPath)
       THEN ra' = RaReturn(ra, "run already in progress")
       ELSE \E versionOK \in BOOLEAN :
               IF versionOK THEN ra' = [ra EXCEPT !.pc = "write-start"]
               ELSE ra' = RaReturn(ra, "agent version")

\* writeJSON(runStartPath, start), and the return of --only-start.
RaWriteStart ==
    /\ ra.pc = "write-start"
    /\ UNCHANGED nonAgent
    /\ \E fail \in Faults :
          IF fail
          THEN /\ ra' = RaReturn(ra, "write")
               /\ UNCHANGED fs
          ELSE /\ fs' = Put(fs, RunStartPath, FileEntry(<<"start">>, 420))
               /\ LET r == [ra EXCEPT !.log = Append(@, Event("start", 0, FALSE)),
                                      !.allowContinues = ra.allow]
                  IN IF ra.onlyStart
                     THEN \E printFails \in Faults :
                             ra' = RaReturn(r, IF printFails THEN "print" ELSE "nil")
                     ELSE ra' = [r EXCEPT !.pc = "turn", !.turn = 1]

\* The head of the loop: the message, the call of the agent runner.
RaTurn ==
    /\ ra.pc = "turn"
    /\ UNCHANGED <<fs, nonAgent>>
    /\ \E printFails \in Faults :
          IF printFails
          THEN ra' = RaReturn(ra, "print")
          ELSE \E outcome \in RunnerOutcomes :
                  ra' = [ra EXCEPT !.pc = "progress",
                                   !.outcome = outcome,
                                   !.log = Append(@, Event("run", ra.turn, outcome))]

\* After the runner: the progress file of the turn, then the ways out of
\* the loop that need no verification.
RaProgress ==
    /\ ra.pc = "progress"
    /\ UNCHANGED nonAgent
    /\ IF ra.outcome.nil \/ ~ra.outcome.progress
       THEN /\ ra' = RaReturn(ra, "agent runner returned no progress")
            /\ UNCHANGED fs
       ELSE \E fail \in Faults :
               IF fail
               THEN /\ ra' = RaReturn(ra, "write")
                    /\ UNCHANGED fs
               ELSE /\ fs' = Put(fs, RunProgressPath, FileEntry(<<"progress">>, 420))
                    /\ LET r == [ra EXCEPT
                                   !.allowContinues = @ /\ ~ra.outcome.manual,
                                   !.log = Append(@, Event("progress", ra.turn, FALSE))]
                       IN IF RunFailed(ra.outcome)
                          THEN ra' = RaReturn(r, "agent run failed")
                          ELSE IF ra.outcome.manual
                          THEN \E printFails \in Faults :
                                  ra' = IF printFails THEN RaReturn(r, "print")
                                        ELSE [r EXCEPT !.pc = "complete"]
                          ELSE IF ~r.allowContinues
                          THEN ra' = [r EXCEPT !.pc = "complete"]
                          ELSE ra' = [r EXCEPT !.pc = "verify"]

\* The verification of the turn and the decision to continue.
RaVerify ==
    /\ ra.pc = "verify"
    /\ UNCHANGED <<fs, nonAgent>>
    /\ \E verRes \in VerifyOutcomes, printFails \in Faults :
          LET r == [ra EXCEPT !.log = Append(@, Event("verify", ra.turn, verRes))] IN
          IF verRes.err THEN ra' = RaReturn(r, "verify")
          ELSE IF printFails THEN ra' = RaReturn(r, "print")
          ELSE IF Succeeded(verRes) THEN ra' = [r EXCEPT !.pc = "complete"]
          ELSE IF ra.continuesUsed >= maxContinues THEN ra' = [r EXCEPT !.pc = "complete"]
          ELSE ra' = [r EXCEPT !.pc = "turn", !.turn = @ + 1, !.continuesUsed = @ + 1]

\* "return printer.Appf("Run complete. ...")"
RaComplete ==
    /\ ra.pc = "complete"
    /\ UNCHANGED <<fs, nonAgent>>
    /\ \E printFails \in Faults :
          ra' = RaReturn(ra, IF printFails THEN "print" ELSE "nil")

NextAgent ==
    \/ RaStart
    \/ RaWriteStart
    \/ RaTurn
    \/ RaProgress
    \/ RaVerify
    \/ RaComplete

SpecAgent == InitAgent /\ [][NextAgent]_vars


\* The calls of the agent runner so far, in order.
RunnerCalls == SelectSeq(ra.log, LAMBDA e : e.ev = "run")

\* The turn before the call at position i of the log ended with a runner
\* that returned no error and was not manual, then a verification that
\* returned no error and did not report success.
ContinuedAfterFailedVerify(i) ==
    /\ ra.allow
    /\ i > 3
    /\ ra.log[i - 3].ev = "run"
    /\ ~ra.log[i - 3].info.err
    /\ ~ra.log[i - 3].info.manual
    /\ ra.log[i - 2].ev = "progress"
    /\ ra.log[i - 1].ev = "verify"
    /\ ~ra.log[i - 1].info.err
    /\ ~(ra.log[i - 1].info.report /\ ra.log[i - 1].info.success)

\* C22: runAgent calls the agent runner at most 1 + maxContinues = 4 times;
\* every call after the first follows, with continues allowed, a turn whose
\* runner returned no error and was not manual and whose verification did
\* not report success; and no runner call follows a verification that
\* reported success.
C22_AtMostFourTurns ==
    /\ Len(RunnerCalls) <= 1 + maxContinues
    /\ \A i \in 1..Len(ra.log) :
          /\ (ra.log[i].ev = "run" /\ ra.log[i].turn > 1)
                => ContinuedAfterFailedVerify(i)
          /\ (ra.log[i].ev = "verify" /\ ra.log[i].info.report /\ ra.log[i].info.success)
                => /\ i = Len(ra.log)
                   /\ ra.pc \in {"complete", "done"}

C22_Witness ==
    /\ ra.pc = "done"
    /\ ra.err = "nil"
    /\ Len(RunnerCalls) = 1 + maxContinues
    /\ ra.continuesUsed = maxContinues


\* The position in the log of a runner call that returned an error.
FailedCalls == {i \in 1..Len(ra.log) : ra.log[i].ev = "run" /\ ra.log[i].info.err}

\* Nothing but the progress write of the same turn follows the call at i.
OnlyProgressAfter(i) ==
    /\ Len(ra.log) <= i + 1
    /\ Len(ra.log) = i + 1 => /\ ra.log[i + 1].ev = "progress"
                              /\ ra.log[i + 1].turn = ra.log[i].turn

\* C23 as stated: once runAgent has returned from a turn whose runner
\* returned an error, it has written .run-progress.json for that turn and
\* returned "agent run failed", with no verification and no other turn.
C23_ProgressThenFailed ==
    \A i \in FailedCalls :
       /\ OnlyProgressAfter(i)
       /\ ra.pc \in {"progress", "done"}
       /\ ra.pc = "done" => /\ Len(ra.log) = i + 1
                            /\ ra.err = "agent run failed"

\* C23 as the code has it: after a runner error there is no verification
\* and no other turn, and runAgent returns an error; the progress file is
\* written and the error is "agent run failed" when the runner returned a
\* progress with its error and the write succeeded; a failed write returns
\* its own error; a runner that returned no progress makes runAgent return
\* "agent runner returned no progress" with nothing written for the turn.
C23_FailedTurnEndsRun ==
    \A i \in FailedCalls :
       /\ OnlyProgressAfter(i)
       /\ ra.pc \in {"progress", "done"}
       /\ ra.pc = "done" =>
             IF ra.log[i].info.nil \/ ~ra.log[i].info.progress
             THEN /\ Len(ra.log) = i
                  /\ ra.err = "agent runner returned no progress"
             ELSE \/ /\ Len(ra.log) = i + 1
                     /\ ra.err = "agent run failed"
                     /\ Stat(fs, RunProgressPath) = "file"
                  \/ /\ Len(ra.log) = i
                     /\ ra.err = "write"

C23_Witness ==
    /\ ra.pc = "done"
    /\ ra.allow
    /\ ra.err = "agent run failed"
    /\ ra.turn = 2
    /\ Len(ra.log) \in FailedCalls \cup {i + 1 : i \in FailedCalls}
    /\ ra.log[Len(ra.log)].ev = "progress"


\* The scenario workspace held a run file when runAgent was called.
RunFilesBefore ==
    \/ Stat(ra.fs0, RunStartPath) = "file"
    \/ Stat(ra.fs0, RunProgressPath) = "file"

\* C24: called on a workspace that already holds .run-start.json or
\* .run-progress.json, runAgent never calls the agent runner, leaves the
\* tree, the two files included, as it was, and returns an error.
C24_ExistingRunRefused ==
    (ra.pc # "off" /\ RunFilesBefore) =>
        /\ RunnerCalls = <<>>
        /\ ra.log = <<>>
        /\ fs = ra.fs0
        /\ ra.pc \in {"start", "done"}
        /\ ra.pc = "done" => ra.err \in {"run already exists", "run already in progress"}

C24_Witness ==
    /\ ra.pc = "done"
    /\ Stat(ra.fs0, RunStartPath) = "ENOENT"
    /\ Stat(ra.fs0, RunProgressPath) = "file"
    /\ fs[RunProgressPath] = OldRunFile
    /\ ra.err = "run already in progress"

---------------------------------------------------------------------------
(* RunCommandStreaming: the child, its two pipes, the two copying
   goroutines, the capture buffer and the console. The child is the only
   process that holds the write ends of the pipes. *)

MaxChunks == 3

\* Chunks a pipe holds before the child's write blocks.
PipeCap == 1

Streams == {"stdout", "stderr"}

\* What the child prints: a sequence of chunks, each on one stream.
Scripts ==
    UNION {[1..n -> Streams] : n \in 0..MaxChunks}

NoErr == <<>>

Kill_Ignored(child) == child

\* exec.CommandContext: os.Process.Kill when the context is done.
Kill(child) == "killed"

\* The write ends of the pipes are closed when the child is gone.
WriteEndClosed(child) == child \in {"exited0", "exited1", "killed"}

FirstError_Last(copyErr, err) == IF err # NoErr THEN err ELSE copyErr

\* "if err := <-errCh; err != nil && copyErr == nil { copyErr = err }"
FirstError(copyErr, err) == IF err # NoErr /\ copyErr = NoErr THEN err ELSE copyErr

\* cmd.Wait(): the child's exit status; for a child that exited with
\* status 0 under a context that is done, nil or the context's error,
\* depending on the release of os/exec.
WaitErrors(child, ctx) ==
    CASE child = "exited0" -> IF ctx = "done" THEN {NoErr, <<"context canceled">>}
                              ELSE {NoErr}
      [] child = "exited1" -> {<<"exit status 1">>}
      [] child = "killed"  -> {<<"signal: killed">>}

\* bytes.Buffer: the slice b.buf as its backing array and its length.
Captured(r) == SubSeq(r.mem, 1, r.len)

IdleReader == [pc |-> "idle", chunk |-> 0, m |-> 0, err |-> NoErr]

nonStream == <<ovars, wr, ra, fn>>

InitStream ==
    /\ AtRest
    /\ wr = Off
    /\ ra = Off
    /\ fn = Off
    /\ \E script \in Scripts :
          rcs = [pc |-> "begin",
                 script |-> script,           \* what the child will print
                 next |-> 1,                  \* the chunk the child prints next
                 child |-> "none",
                 pipe |-> [s \in Streams |-> <<>>],
                 rd |-> [s \in Streams |-> IdleReader],
                 mem |-> [i \in 1..(MaxChunks + 1) |-> 0],
                 len |-> 0,
                 console |-> [c \in 1..MaxChunks |-> 0],   \* times each chunk reached the console
                 errCh |-> <<>>,
                 received |-> 0,
                 copyErr |-> NoErr,
                 waitErr |-> NoErr,
                 ctx |-> "live",
                 ret |-> [out |-> <<>>, err |-> NoErr],
                 sent |-> <<>>,               \* history: the readers' results in order
                 both |-> FALSE]              \* history: two readers inside buf.Write

\* The command line, the pipes, cmd.Start and the two go statements.
RcsBegin ==
    /\ rcs.pc = "begin"
    /\ UNCHANGED nonStream
    /\ \E fail \in {"none", "print", "start"} :
          IF fail # "none"
          THEN rcs' = [rcs EXCEPT !.pc = "returned", !.ret = [out |-> <<>>, err |-> <<fail>>]]
          ELSE rcs' = [rcs EXCEPT !.pc = "recv", !.child = "running",
                                  !.rd = [s \in Streams |-> [IdleReader EXCEPT !.pc = "read"]]]

\* The child prints its next chunk; the write blocks while the pipe is full.
ChildEmit ==
    /\ rcs.child = "running"
    /\ rcs.next <= Len(rcs.script)
    /\ UNCHANGED nonStream
    /\ LET s == rcs.script[rcs.next] IN
       /\ Len(rcs.pipe[s]) < PipeCap
       /\ rcs' = [rcs EXCEPT !.pipe[s] = Append(@, rcs.next), !.next = @ + 1]

\* The child exits on its own after its last chunk.
ChildExit ==
    /\ rcs.child = "running"
    /\ rcs.next > Len(rcs.script)
    /\ UNCHANGED nonStream
    /\ \E code \in {"exited0", "exited1"} : rcs' = [rcs EXCEPT !.child = code]

\* The context is cancelled or its deadline passes.
CtxDone ==
    /\ rcs.pc \in {"recv", "wait"}
    /\ rcs.ctx = "live"
    /\ UNCHANGED nonStream
    /\ rcs' = [rcs EXCEPT !.ctx = "done"]

\* The goroutine of exec.CommandContext kills the child of a done context.
CtxKill ==
    /\ rcs.ctx = "done"
    /\ rcs.child = "running"
    /\ UNCHANGED nonStream
    /\ rcs' = [rcs EXCEPT !.child = Kill(rcs.child)]

\* io.Copy -> TeeReader.Read -> pipe read: a chunk, or EOF once the write
\* end is closed and the pipe is drained; io.Copy then returns nil.
RdRead(s) ==
    /\ rcs.rd[s].pc = "read"
    /\ UNCHANGED nonStream
    /\ IF rcs.pipe[s] # <<>>
       THEN rcs' = [rcs EXCEPT !.rd[s].pc = "load", !.rd[s].chunk = Head(rcs.pipe[s]),
                               !.pipe[s] = Tail(@)]
       ELSE /\ WriteEndClosed(rcs.child)
            /\ rcs' = [rcs EXCEPT !.rd[s].pc = "send"]

\* TeeReader.Read -> buf.Write, first half: "m := len(b.buf)". No lock is held.
RdLoad(s) ==
    /\ rcs.rd[s].pc = "load"
    /\ UNCHANGED nonStream
    /\ rcs' = [rcs EXCEPT !.rd[s].pc = "store", !.rd[s].m = rcs.len,
                          !.both = @ \/ \E t \in Streams \ {s} : rcs.rd[t].pc = "store"]

\* buf.Write, second half: "b.buf = b.buf[:m+n]; copy(b.buf[m:], p)".
RdStore(s) ==
    /\ rcs.rd[s].pc = "store"
    /\ UNCHANGED nonStream
    /\ rcs' = [rcs EXCEPT !.rd[s].pc = "write", !.rd[s].m = 0,
                          !.mem[rcs.rd[s].m + 1] = rcs.rd[s].chunk,
                          !.len = rcs.rd[s].m + 1]

\* styledWriter.Write, one step because w.mu is held from its Lock to its
\* deferred Unlock: the write to the console; a failed write ends io.Copy
\* with the error.
RdWrite(s) ==
    /\ rcs.rd[s].pc = "write"
    /\ UNCHANGED nonStream
    /\ \E fail \in Faults :
          IF fail
          THEN rcs' = [rcs EXCEPT !.rd[s].pc = "send", !.rd[s].err = <<"console", s>>,
                                  !.rd[s].chunk = 0]
          ELSE rcs' = [rcs EXCEPT !.rd[s].pc = "read", !.rd[s].chunk = 0,
                                  !.console[rcs.rd[s].chunk] = @ + 1]

\* "errCh <- copyStream(r)"; the channel has room for both.
RdSend(s) ==
    /\ rcs.rd[s].pc = "send"
    /\ UNCHANGED nonStream
    /\ rcs' = [rcs EXCEPT !.rd[s].pc = "done",
                          !.errCh = Append(@, rcs.rd[s].err),
                          !.sent = Append(@, rcs.rd[s].err)]

\* "err := <-errCh", twice.
RcsRecv ==
    /\ rcs.pc = "recv"
    /\ rcs.errCh # <<>>
    /\ UNCHANGED nonStream
    /\ rcs' = [rcs EXCEPT !.errCh = Tail(@),
                          !.copyErr = FirstError(@, Head(rcs.errCh)),
                          !.received = @ + 1,
                          !.pc = IF rcs.received + 1 = 2 THEN "wait" ELSE "recv"]

\* cmd.Wait() and the return.
RcsWait ==
    /\ rcs.pc = "wait"
    /\ WriteEndClosed(rcs.child)
    /\ UNCHANGED nonStream
    /\ \E waitErr \in WaitErrors(rcs.child, rcs.ctx) :
       rcs' = [rcs EXCEPT !.pc = "returned", !.waitErr = waitErr,
                          !.ret = [out |-> Captured(rcs),
                                   err |-> IF waitErr # NoErr THEN waitErr ELSE rcs.copyErr]]

Reader(s) ==
    \/ RdRead(s)
    \/ RdLoad(s)
    \/ RdStore(s)
    \/ RdWrite(s)
    \/ RdSend(s)

NextStream ==
    \/ RcsBegin
    \/ ChildEmit
    \/ ChildExit
    \/ CtxDone
    \/ CtxKill
    \/ \E s \in Streams : Reader(s)
    \/ RcsRecv
    \/ RcsWait

SpecStream == InitStream /\ [][NextStream]_vars


Count(seq, c) == Cardinality({i \in 1..Len(seq) : seq[i] = c})

\* No reader is between the two halves of buf.Write while the other is.
OneWriterAtATime == ~rcs.both

\* After a call in which no console write failed, each chunk the child
\* printed is once in the returned capture and once on the console.
CapturedIsConsole ==
    (/\ rcs.pc = "returned"
     /\ rcs.received = 2
     /\ \A i \in 1..Len(rcs.sent) : rcs.sent[i] = NoErr)
    => /\ Len(rcs.ret.out) = rcs.next - 1
       /\ \A c \in 1..(rcs.next - 1) :
             /\ Count(rcs.ret.out, c) = 1
             /\ rcs.console[c] = 1

\* C25: under every interleaving of the two readers each chunk is appended
\* once and intact to the capture buffer and written once to the console, so
\* that the capture holds what the console received, and the two readers are
\* never inside the buffer's Write at the same time.
C25_CaptureMatchesConsole ==
    /\ OneWriterAtATime
    /\ CapturedIsConsole


\* The error of the reader that was first to end with one, if any did.
FirstSent ==
    LET failed == {i \in 1..Len(rcs.sent) : rcs.sent[i] # NoErr} IN
    IF failed = {} THEN NoErr
    ELSE rcs.sent[CHOOSE i \in failed : \A j \in failed : i <= j]

\* The call got as far as starting the child.
Streamed == rcs.pc = "returned" /\ rcs.child # "none"

BothReadersDone == \A s \in Streams : rcs.rd[s].pc = "done"

\* C26 as stated: the call returns after both readers have finished, and
\* returns the first error a reader ended with.
C26_FirstReaderError ==
    Streamed => /\ BothReadersDone
                /\ FirstSent # NoErr => rcs.ret.err = FirstSent

\* C26 as the code has it: the call returns after both readers have
\* finished; it returns the error of cmd.Wait when there is one, and
\* otherwise the first error a reader ended with (nil when none did).
C26_WaitErrorThenFirstReaderError ==
    Streamed => /\ BothReadersDone
                /\ rcs.errCh = <<>>
                /\ rcs.child # "exited0" => rcs.waitErr # NoErr
                /\ rcs.ret.err = IF rcs.waitErr # NoErr THEN rcs.waitErr ELSE FirstSent

C26_Witness ==
    /\ Streamed
    /\ rcs.waitErr = NoErr
    /\ rcs.sent = <<(<<"console", "stderr">>), (<<"console", "stdout">>)>>
    /\ rcs.ret.err = <<"console", "stderr">>


\* The Go scheduler runs every goroutine that can run: the two readers, the
\* caller, the goroutine that watches the context. The child and the
\* context are not obliged to do anything.
FairStream ==
    /\ \A s \in Streams : WF_vars(Reader(s))
    /\ WF_vars(RcsRecv)
    /\ WF_vars(RcsWait)
    /\ WF_vars(CtxKill)

SpecStreamLive == SpecStream /\ FairStream

---------------------------------------------------------------------------
(* verify.Run: the order of the audit, the injection, the report and the
   removal of the injected files *)

\* The tree holds nothing of the copy steps: no path that was not there at
\* the call, and every file of then with its content and mode.
NothingInjected ==
    /\ \A p \in DOMAIN fs : p \in DOMAIN vhist.fs0
    /\ \A p \in DOMAIN vhist.fs0 :
          vhist.fs0[p].kind = "file" => p \in DOMAIN fs /\ fs[p] = vhist.fs0[p]

\* The closures the copy steps of this call returned, noop excluded.
Undos == {vst.undos[i] : i \in 1..Len(vst.undos)} \ {0}

\* The report of the full run has been built, written (unless OnlyReport)
\* and its summary printed; the deferred cleanup has not started.
JustReported == vpc = "cleanup" /\ pc = "idle" /\ vst.i = Len(vst.undos)

\* C28 as stated: on the path where the gate passes, the injected files are
\* gone by the time the report has been built, written and printed.
C28_RemovedBeforeReport == JustReported => NothingInjected

\* C28 as the code has it: on the path where the gate passes, no cleanup
\* closure runs while the tests and partial tests run and while the report
\* is built, written and printed; the deferred cleanup calls every closure
\* after that, and Run returns when they have all run.
C28_RemovedAfterReport ==
    /\ (vpc \in {"tests", "partial", "report"} \/ JustReported)
          => \A k \in Undos : ~closures[k].once
    /\ (out.done /\ vst.printed > 0 /\ Len(vst.problems) = 0)
          => /\ pc = "idle"
             /\ \A k \in Undos : closures[k].once

C28_Witness ==
    /\ out.done
    /\ out.err = "nil"
    /\ vst.printed > 0
    /\ Len(vst.problems) = 0
    /\ Undos # {}
    /\ NothingInjected
    /\ fs # vhist.fs0 \/ vhist.runs > 0


\* What an audit of the tree as it is now would report.
AuditNow ==
    checkModificationRules(fs, cfg, WorkspaceDir, GitAfter(gitOut, vhist.fs0, fs))

\* C29: no copy step touches the workspace before the audit has completed:
\* until then the tree is the one the call found, the git queries printed
\* what they print on that tree, and the violations are those of the rules
\* on that tree, whatever the copy steps inject afterwards.
C29_AuditBeforeInjection ==
    /\ vpc \in {"start", "audit"} => /\ fs = vhist.fs0
                                     /\ vhist.copies = 0
    /\ vhist.copies > 0 => vst.audited
    /\ vst.audited => /\ vst.git = gitOut
                      /\ vst.problems =
                            checkModificationRules(vhist.fs0, cfg, WorkspaceDir, gitOut)

\* The copy steps have injected files that an audit would now see: it would
\* report other violations than the audit of this call did.
C29_Witness ==
    /\ vst.audited
    /\ vpc = "tests"
    /\ fs # vhist.fs0
    /\ AuditNow # vst.problems

---------------------------------------------------------------------------
(* CopyToDir: what the transaction has recorded when the tree changes *)

\* A CopyToDir call is running, its rollback included.
InCall == pc # "idle" /\ un.ret # "closure"

\* The call is still copying: it has not started to roll back.
Copying == InCall /\ un.ret # "rollback"

\* The files of the tree now or at the call, the engine's temporary files
\* (".fsutil-copy-*", ".fsutil-backup-*", ".fsutil-undo-*") aside.
DestinationFiles ==
    {p \in (DOMAIN fs) \cup (DOMAIN hist.pre) :
        /\ ~IsTemp(p)
        /\ \/ p \in DOMAIN fs /\ fs[p].kind = "file"
           \/ p \in DOMAIN hist.pre /\ hist.pre[p].kind = "file"}

\* The state of p on disk is not the one it had at the call.
Differs(p) ==
    \/ p \in DOMAIN fs /\ p \notin DOMAIN hist.pre
    \/ p \notin DOMAIN fs /\ p \in DOMAIN hist.pre
    \/ p \in DOMAIN fs /\ p \in DOMAIN hist.pre /\ fs[p] # hist.pre[p]

OverwrittenEntries == {txn.overwritten[i] : i \in 1..Len(txn.overwritten)}

CreatedFiles == {txn.createdFiles[i] : i \in 1..Len(txn.createdFiles)}

\* The entry's backup is a file with the bytes the destination had at the
\* call, and the entry has the mode it had.
HoldsOriginal(e) ==
    /\ e.path \in DOMAIN hist.pre
    /\ hist.pre[e.path].kind = "file"
    /\ e.backup \in DOMAIN fs
    /\ fs[e.backup].kind = "file"
    /\ fs[e.backup].data = hist.pre[e.path].data
    /\ e.mode = hist.pre[e.path].mode

\* C30: at every point of a CopyToDir call, a destination file that is new
\* or replaced is in txn.createdFiles or in txn.overwritten; and while the
\* call copies, every entry of txn.overwritten has a complete backup of the
\* original bytes and the original mode, so that both are there before the
\* rename replaces the destination.
C30_RecordedBeforeChanged ==
    /\ InCall =>
          \A p \in DestinationFiles :
             Differs(p) => \/ p \in CreatedFiles /\ p \notin DOMAIN hist.pre
                           \/ \E e \in OverwrittenEntries : e.path = p
    /\ Copying => \A e \in OverwrittenEntries : HoldsOriginal(e)
    /\ (pc = "cf_rename" /\ cf.destExists) =>
          /\ txn.overwritten # <<>>
          /\ txn.overwritten[Len(txn.overwritten)].path = cf.dst
          /\ fs[cf.dst] = hist.pre[cf.dst]

\* A call that has replaced one file and created another and goes on.
C30_Witness ==
    /\ Copying
    /\ \E e \in OverwrittenEntries : Differs(e.path) /\ HoldsOriginal(e)
    /\ \E p \in CreatedFiles : p \in DOMAIN fs

---------------------------------------------------------------------------
(* undoChanges: the order of a reversal and of a rollback *)

RECURSIVE CountDown(_, _)
\* <<op, n>>, <<op, n - 1>>, ..., <<op, 1>>
CountDown(op, n) == IF n = 0 THEN <<>> ELSE <<(<<op, n>>)>> \o CountDown(op, n - 1)

RECURSIVE RestoreDown(_)
\* restoreFile and the removal of the backup, for entry n down to entry 1.
RestoreDown(n) ==
    IF n = 0 THEN <<>>
    ELSE <<(<<"restore", n>>), (<<"backup", n>>)>> \o RestoreDown(n - 1)

\* What an undoChanges on the lists of u is to do, in order.
UndoOrder(u) ==
    RestoreDown(Len(u.over)) \o CountDown("file", Len(u.files)) \o CountDown("dir", Len(u.dirs))

\* In a list of directories every directory comes after its ancestors in it.
AncestorsFirst(dirs) ==
    \A i, j \in 1..Len(dirs) : (i # j /\ IsUnder(dirs[i], dirs[j])) => i < j

\* An undoChanges is running.
Undoing == pc \in {"undo_over", "rs_copy", "rs_rename", "undo_backup_rm",
                   "undo_files", "undo_dirs"}

\* Position k of the log removes a created directory after every removal of
\* a created file or created directory beneath it.
RemovedAfterContents(k) ==
    un.log[k][1] = "dir" =>
        LET d == un.dirs[un.log[k][2]] IN
        /\ \A i \in 1..Len(un.files) :
              IsUnder(d, un.files[i]) => \E h \in 1..(k - 1) : un.log[h] = <<"file", i>>
        /\ \A j \in 1..Len(un.dirs) :
              (un.dirs[j] # d /\ IsUnder(d, un.dirs[j]))
                 => \E h \in 1..(k - 1) : un.log[h] = <<"dir", j>>

\* C31: a reversal and a rollback restore the overwritten files newest
\* first, deleting each backup after its restoration, then delete the
\* created files newest first, then remove the created directories newest
\* first; createdDirs has every created directory after its created
\* ancestors, so a created directory is removed after every created file and
\* created directory beneath it.
C31_UndoNewestFirst ==
    /\ AncestorsFirst(txn.createdDirs)
    /\ \A k \in 1..Len(closures) : AncestorsFirst(closures[k].dirs)
    /\ Undoing =>
          /\ Len(un.log) <= Len(UndoOrder(un))
          /\ un.log = SubSeq(UndoOrder(un), 1, Len(un.log))
          /\ (pc = "undo_dirs" /\ un.i = 0) => un.log = UndoOrder(un)
          /\ \A k \in 1..Len(un.log) : RemovedAfterContents(k)

\* An undo that has deleted a created file and removed the created
\* directory that held it and that directory's created parent.
C31_Witness ==
    /\ pc = "undo_dirs"
    /\ un.i = 0
    /\ un.log = UndoOrder(un)
    /\ \E i, j \in 1..Len(un.dirs), f \in 1..Len(un.files) :
          /\ IsUnder(un.dirs[i], un.dirs[j])
          /\ IsUnder(un.dirs[j], un.files[f])


(***************************************************************************)
(* checkModificationRules: how many no-modify violations are emitted       *)
(***************************************************************************)

BlockedByNoModify ==
    {i \in DOMAIN vst.problems : HasSuffix(vst.problems[i], MsgBlocked)}

\* The pairs (changed path, index of a no-modify entry) whose entry matches.
MatchingPairs ==
    {pr \in ChangedByAgent \X DOMAIN cfg.noModify :
        pathMatchesRule(fs, pr[1], cfg.noModify[pr[2]], WorkspaceDir)}

BlockedPaths == {pr[1] : pr \in MatchingPairs}

\* C32 as stated: the audit emits one no-modify violation per pair of a
\* changed path and a no-modify entry that matches it.
C32_OneViolationPerMatchingPair ==
    Audited => Cardinality(BlockedByNoModify) = Cardinality(MatchingPairs)

\* C32: the audit emits one no-modify violation per changed path that at
\* least one no-modify entry matches, however many entries match it, and the
\* violation names that path.
C32_OneViolationPerBlockedPath ==
    Audited =>
        /\ Cardinality(BlockedByNoModify) = Cardinality(BlockedPaths)
        /\ \A p \in BlockedPaths :
              \E i \in BlockedByNoModify : vst.problems[i] = p \o MsgBlocked

\* A changed path that two no-modify entries match, reported once, next to a
\* changed path that no entry matches.
C32_Witness ==
    /\ Audited
    /\ \E p \in BlockedPaths :
          Cardinality({pr \in MatchingPairs : pr[1] = p}) = 2
    /\ ChangedByAgent \ BlockedPaths # {}
    /\ Cardinality(BlockedByNoModify) = Cardinality(BlockedPaths)


(***************************************************************************)
(* pathMatchesRule: directory-scope rules                                  *)
(***************************************************************************)

\* A rule without glob metacharacters that ends with a separator or names a
\* directory of the workspace as it is when the audit runs.
DirectoryScope(rule) ==
    /\ ~IsBlank(rule)
    /\ ~ContainsAny(rule, {"*", "?", "["})
    /\ looksLikeDirRule(fs, rule, WorkspaceDir)

OnlyDirectoryScopeNoModify ==
    /\ cfg.noModify # <<>>
    /\ \A i \in DOMAIN cfg.noModify : DirectoryScope(cfg.noModify[i])

Blocked(p) == \E i \in BlockedByNoModify : vst.problems[i] = p \o MsgBlocked

\* C33 as stated: under directory-scope no-modify rules a changed path is
\* blocked exactly when its parent directory is the cleaned path of a rule.
C33_DirRuleMatchesParentOnly ==
    (Audited /\ OnlyDirectoryScopeNoModify) =>
        \A p \in ChangedByAgent :
            Blocked(p) <=>
                \E i \in DOMAIN cfg.noModify : Dir(Clean(p)) = Clean(cfg.noModify[i])

\* C33: under directory-scope no-modify rules a changed path is blocked
\* exactly when its parent directory, or the path itself, is the cleaned path
\* of a rule.
C33_DirRuleMatchesParentOrSelf ==
    (Audited /\ OnlyDirectoryScopeNoModify) =>
        \A p \in ChangedByAgent :
            Blocked(p) <=>
                \E i \in DOMAIN cfg.noModify :
                    \/ Dir(Clean(p)) = Clean(cfg.noModify[i])
                    \/ Clean(p) = Clean(cfg.noModify[i])

\* One changed path blocked through its parent directory and one blocked
\* because it is the rule path itself.
C33_Witness ==
    /\ Audited
    /\ OnlyDirectoryScopeNoModify
    /\ \E p, q \in ChangedByAgent, i, j \in DOMAIN cfg.noModify :
          /\ Blocked(p) /\ Dir(Clean(p)) = Clean(cfg.noModify[i])
          /\ Blocked(q) /\ Clean(q) = Clean(cfg.noModify[j])


(***************************************************************************)
(* pathMatchesRule: glob rules                                             *)
(***************************************************************************)

NumSeparators(s) == Cardinality({i \in DOMAIN s : s[i] = "/"})

\* The index of the "]" that closes the class opened at pattern[1]; 0 when
\* the class is never closed.
ClassEnd(pattern) ==
    LET ends == {i \in 3..Len(pattern) : pattern[i] = "]"} IN
    IF ends = {} THEN 0 ELSE CHOOSE i \in ends : \A j \in ends : i <= j

RECURSIVE Glob(_, _)
\* The glob language of path/filepath for patterns without "\" and without
\* ranges: "*" is any run of non-separator characters, "?" one non-separator
\* character, "[...]" one character of the class and "[^...]" one character
\* outside it; a class that is never closed makes the pattern malformed.
Glob(pattern, name) ==
    IF pattern = <<>> THEN name = <<>>
    ELSE LET c == Head(pattern) IN
         IF c = "*"
         THEN \/ Glob(Tail(pattern), name)
              \/ name # <<>> /\ Head(name) # "/" /\ Glob(pattern, Tail(name))
         ELSE IF c = "?"
         THEN name # <<>> /\ Head(name) # "/" /\ Glob(Tail(pattern), Tail(name))
         ELSE IF c = "["
         THEN LET e   == ClassEnd(pattern)
                  neg == Len(pattern) >= 2 /\ pattern[2] = "^"
                  set == {pattern[i] : i \in (IF neg THEN 3 ELSE 2)..(e - 1)}
              IN /\ e > 0
                 /\ name # <<>>
                 /\ (Head(name) \in set) # neg
                 /\ Glob(SubSeq(pattern, e + 1, Len(pattern)), Tail(name))
         ELSE name # <<>> /\ Head(name) = c /\ Glob(Tail(pattern), Tail(name))

Malformed(pattern) ==
    \E i \in DOMAIN pattern :
        pattern[i] = "[" /\ \A j \in (i + 1)..Len(pattern) : pattern[j] # "]"

OnlyGlobNoModify ==
    /\ cfg.noModify # <<>>
    /\ \A i \in DOMAIN cfg.noModify :
          /\ IsGlobRule(cfg.noModify[i])
          /\ ~ContainsAny(cfg.noModify[i], {"\\", "-"})

\* C34 as stated, the separator part: a changed path blocked by a glob rule
\* has as many separators as a rule has, because no wildcard of the rule
\* matches a separator.
C34_WildcardsNeverCrossSeparator ==
    (Audited /\ OnlyGlobNoModify) =>
        \A p \in ChangedByAgent :
            Blocked(p) =>
                \E i \in DOMAIN cfg.noModify :
                    NumSeparators(Clean(p)) = NumSeparators(cfg.noModify[i])

\* C34: under glob no-modify rules a changed path is blocked exactly when a
\* well-formed rule matches the cleaned path as a glob, the rule taken as it
\* is written: with "*" and "?" matching no separator, with a character class
\* matching any one character it admits (a separator included), without a
\* directory-scope or exact-path reading of the rule, and with a malformed
\* rule matching nothing.
C34_GlobRuleIsGlobOnly ==
    (Audited /\ OnlyGlobNoModify) =>
        \A p \in ChangedByAgent :
            /\ Blocked(p) <=>
                  \E i \in DOMAIN cfg.noModify :
                      ~Malformed(cfg.noModify[i]) /\ Glob(cfg.noModify[i], Clean(p))
            /\ (Blocked(p) /\ \A i \in DOMAIN cfg.noModify : ~ContainsAny(cfg.noModify[i], {"["}))
                  => \E i \in DOMAIN cfg.noModify :
                        NumSeparators(Clean(p)) = NumSeparators(cfg.noModify[i])

\* Rules sub/* and the malformed t[ : a file directly in sub is blocked, a
\* file two levels below sub and the file t are not.
C34_Witness ==
    /\ Audited
    /\ OnlyGlobNoModify
    /\ \E i, j \in DOMAIN cfg.noModify, p, q \in ChangedByAgent :
          /\ Malformed(cfg.noModify[i])
          /\ ~Malformed(cfg.noModify[j])
          /\ Blocked(p) /\ Glob(cfg.noModify[j], Clean(p))
          /\ ~Blocked(q)
          /\ \/ HasPrefix(q, SubSeq(cfg.noModify[j], 1, Len(cfg.noModify[j]) - 1))
             \/ HasPrefix(q, SubSeq(cfg.noModify[i], 1, Len(cfg.noModify[i]) - 1))


(***************************************************************************)
(* runPartial: the score when no test event is seen                        *)
(***************************************************************************)

\* C35: in the report of a run that passed the audit, the partial score is
\* absent exactly when the scenario has no partial target; with partial
\* targets that print no pass and no fail event of a test, the score is
\* present and 0 and the report is not a success, whatever the required
\* tests did.
C35_NoEventsScoreZero ==
    FullReport =>
        /\ ~out.result.score.set <=> cfg.partial = <<>>
        /\ (cfg.partial # <<>> /\ PassEvents + FailEvents = 0) =>
              /\ out.result.score.set
              /\ out.result.score.num = 0
              /\ ~out.result.success

\* Two partial targets, one that cannot be parsed and one whose process
\* fails without a test event, after required tests that all passed.
C35_Witness ==
    /\ FullReport
    /\ Len(cfg.partial) >= 2
    /\ Unparseable(cfg.partial) # {}
    /\ Len(PartialLog) >= 1
    /\ \A i \in DOMAIN PartialLog : ~PartialLog[i].ok
    /\ PassEvents + FailEvents = 0
    /\ out.result.tests # <<>>
    /\ \A i \in DOMAIN out.result.tests : out.result.tests[i].passed
    /\ out.result.score.set
    /\ out.result.score.num = 0
    /\ ~out.result.success


---------------------------------------------------------------------------
(* parseJSONCounts on its own: a go test -json stream, line by line *)

\* The longest stream, in lines.
MaxLines == 3

\* The lines of a stream: events of a test and of a subtest, events of the
\* package (no Test), another action, text that is not JSON; and a line that
\* is longer than bufio.MaxScanTokenSize, an output event or plain text.
StreamLines ==
    [json : {TRUE}, action : {"pass", "fail"}, test : {"", "T", "T/a"}, long : {FALSE}]
        \cup {[json |-> TRUE, action |-> "skip", test |-> "T", long |-> FALSE],
              [json |-> FALSE, action |-> "", test |-> "", long |-> FALSE],
              [json |-> TRUE, action |-> "output", test |-> "T", long |-> TRUE],
              [json |-> FALSE, action |-> "", test |-> "", long |-> TRUE]}

InitCounts ==
    /\ AtRest
    /\ wr = Off
    /\ ra = Off
    /\ rcs = Off
    /\ fn = [pc |-> "print", output |-> <<>>, passed |-> 0, total |-> 0]

\* The test process prints one more line.
PrintLine ==
    /\ fn.pc = "print"
    /\ Len(fn.output) < MaxLines
    /\ \E line \in StreamLines : fn' = [fn EXCEPT !.output = Append(@, line)]
    /\ UNCHANGED <<ovars, wr, ra, rcs>>

\* passed, total := parseJSONCounts(res.Output)
CountEvents ==
    /\ fn.pc = "print"
    /\ LET counts == parseJSONCounts(fn.output) IN
       fn' = [fn EXCEPT !.pc = "counted", !.passed = counts.passed, !.total = counts.total]
    /\ UNCHANGED <<ovars, wr, ra, rcs>>

NextCounts ==
    \/ PrintLine
    \/ CountEvents

SpecCounts == InitCounts /\ [][NextCounts]_vars

Counted == fn.pc = "counted"

\* C36: total is the number of lines that are JSON with a Test and the
\* action pass or fail, passed the number of those with pass; no other line,
\* whatever its length and its place, changes a count.
C36_CountsTestEvents ==
    Counted =>
        /\ fn.passed = EventCount(fn.output, "pass")
        /\ fn.total = EventCount(fn.output, "pass") + EventCount(fn.output, "fail")

\* The same for the streams whose lines all fit into the scanner's buffer.
CountsTestEventsOfShortLines ==
    (Counted /\ \A i \in DOMAIN fn.output : ~fn.output[i].long) =>
        /\ fn.passed = EventCount(fn.output, "pass")
        /\ fn.total = EventCount(fn.output, "pass") + EventCount(fn.output, "fail")

\* A failing test with a passing subtest between lines that count for
\* nothing: two events, one passed.
ParentAndSubtestCounted ==
    /\ Counted
    /\ \A i \in DOMAIN fn.output : ~fn.output[i].long
    /\ \E i, j, k \in DOMAIN fn.output :
          /\ fn.output[i].test = "T/a" /\ fn.output[i].action = "pass"
          /\ fn.output[j].test = "T" /\ fn.output[j].action = "fail"
          /\ ~fn.output[k].json
    /\ fn.passed = 1
    /\ fn.total = 2


---------------------------------------------------------------------------
(* parseTestArgs on its own: one target spec in one workspace *)

\* Target specs: blank, with ./ or ../ in front, absolute, a directory, a
\* file, a missing name, with /... at the end, with a glob, with arguments
\* after the target, with "go test" in front, with an empty first argument.
TargetEntries ==
    {<<" ", " ", " ">>,
     <<".", "/", "d">>,
     <<".", ".", "/", "s">>,
     <<"/", "w", "/", "d">>,
     <<"d">>,
     <<"s", "u", "b">>,
     <<"s", "u", "b", "/", ".", ".", ".">>,
     <<"z", "z", "/", ".", ".", ".">>,
     <<"s", "u", "b", "/", "*">>,
     <<"*">>,
     <<"t">>,
     <<"z", "z">>,
     <<"d", " ", "-", "r", "u", "n", " ", "T">>,
     <<"z", "z", " ", "d">>,
     <<"g", "o", " ", "t", "e", "s", "t", " ", "d">>,
     <<".", "/", ".", ".", ".">>,
     <<"'", "'", " ", "d">>,
     <<"s", "u", "b", "/", ".", ".", ".", " ", "s", "u", "b">>,
     <<"d", "/", "*", "/", ".", ".", ".">>,
     <<".", ".", ".">>}

InitTargets ==
    /\ fs \in {Tree(SourceTree \cup ws) : ws \in Workspaces}
    /\ pc = "idle"
    /\ args = NoArgs
    /\ txn = EmptyTxn
    /\ mk = NoMk
    /\ walk = <<>>
    /\ cf = NoCf
    /\ un = NoUn
    /\ closures = <<>>
    /\ status = "none"
    /\ handle = 0
    /\ hist = [pre |-> fs, snap |-> fs, lastop |-> "none", ext |-> FALSE,
               invoked |-> FALSE, rb |-> [over |-> 0, files |-> 0, dirs |-> 0]]
    /\ cfg = NoCfg
    /\ gitOut = <<>>
    /\ vpc = "off"
    /\ vst = NoVst
    /\ results = <<>>
    /\ out = NoOut
    /\ vhist = NewVhist(fs)
    /\ wr = Off
    /\ ra = Off
    /\ rcs = Off
    /\ \E entry \in TargetEntries :
          fn = [pc |-> "parse", entry |-> entry, ok |-> FALSE, args |-> <<>>, again |-> <<>>]

\* args, err := parseTestArgs(workdir, entry)
ParseEntry ==
    /\ fn.pc = "parse"
    /\ LET parsed == parseTestArgs(fs, WorkspaceDir, fn.entry) IN
       fn' = [fn EXCEPT !.pc = "parsed", !.ok = parsed.ok, !.args = parsed.args]
    /\ UNCHANGED <<ovars, wr, ra, rcs>>

\* The first argument is handed to normalizeTestTargetArg once more.
NormalizeAgain ==
    /\ fn.pc = "parsed"
    /\ fn.ok
    /\ fn' = [fn EXCEPT !.pc = "again",
                        !.again = normalizeTestTargetArg(fs, fn.args[1], WorkspaceDir)]
    /\ UNCHANGED <<ovars, wr, ra, rcs>>

NextTargets ==
    \/ ParseEntry
    \/ NormalizeAgain

SpecTargets == InitTargets /\ [][NextTargets]_vars

\* The arguments of a target spec as shellwords splits them.
Words(entry) ==
    LET trimmed == TrimSpace(entry)
        rest    == IF HasPrefix(trimmed, <<"g", "o", " ", "t", "e", "s", "t">>)
                   THEN TrimSpace(SubSeq(trimmed, 8, Len(trimmed)))
                   ELSE trimmed
    IN ShellwordsParse(rest).args

\* Empty, with ./ or ../ in front, or absolute.
AlreadyAnchored(target) ==
    \/ target = <<>>
    \/ HasPrefix(target, <<".", "/">>)
    \/ HasPrefix(target, <<".", ".", "/">>)
    \/ Head(target) = "/"

\* The target without a trailing /... and, for a glob, the directory of the
\* pattern.
TargetBase(target) ==
    LET noDots == IF HasSuffix(target, <<"/", ".", ".", ".">>)
                  THEN SubSeq(target, 1, Len(target) - 4) ELSE target
    IN IF \E i \in DOMAIN noDots : noDots[i] \in {"*", "?", "["} THEN Dir(noDots) ELSE noDots

InWorkdir(rel) == FsPath(WorkspaceDir \o <<"/">> \o rel) \in DOMAIN fs

DotSlash(target) == <<".", "/">> \o target

\* C37: the first argument of a parsed target spec is the written target
\* when that is empty, begins with ./ or ../ or is absolute, and otherwise
\* the target with ./ in front exactly when its base exists in the working
\* directory; the other arguments are as written; normalizing the result
\* again gives the same result.
C37_NormalizesFirstArgOnce ==
    (fn.pc \in {"parsed", "again"} /\ fn.ok) =>
        LET words  == Words(fn.entry)
            target == words[1]
        IN /\ Len(fn.args) = Len(words)
           /\ \A i \in 2..Len(words) : fn.args[i] = words[i]
           /\ AlreadyAnchored(target) => fn.args[1] = target
           /\ ~AlreadyAnchored(target) =>
                 /\ InWorkdir(TargetBase(target)) => fn.args[1] = DotSlash(target)
                 /\ ~InWorkdir(TargetBase(target)) => fn.args[1] = target
           /\ fn.pc = "again" => fn.again = fn.args[1]

\* A target with /... whose directory exists gets ./ in front, the argument
\* after it, which names the same directory, is left alone, and a second
\* normalization changes nothing.
C37_Witness ==
    /\ fn.pc = "again"
    /\ Len(fn.args) = 2
    /\ HasSuffix(Words(fn.entry)[1], <<"/", ".", ".", ".">>)
    /\ fn.args[1] = DotSlash(Words(fn.entry)[1])
    /\ fn.args[2] = Words(fn.entry)[2]
    /\ InWorkdir(fn.args[2])
    /\ fn.again = fn.args[1]


(***************************************************************************)
(* applyVerifyCopies: the order of the cleanup                             *)
(***************************************************************************)

\* Every copy step succeeded and Run has returned through its cleanup.
CleanedUp ==
    /\ out.done
    /\ cfg.copy # <<>>
    /\ Len(vst.undos) = Len(cfg.copy)

\* The closures of the steps that have been called.
Called == {k \in DOMAIN vst.undos : vst.undos[k] # 0 /\ OnceDone(closures[vst.undos[k]])}

\* The paths two steps of this call wrote.
WrittenTwice ==
    {p \in DOMAIN vhist.fs0 \cup DOMAIN fs \cup UNION {Written(closures[vst.undos[k]]) : k \in {j \in DOMAIN vst.undos : vst.undos[j] # 0}} :
        \E i, j \in DOMAIN vst.undos :
            /\ i < j
            /\ vst.undos[i] # 0 /\ vst.undos[j] # 0
            /\ p \in Written(closures[vst.undos[i]])
            /\ p \in Written(closures[vst.undos[j]])}

CreatedTwiceRemoved ==
    /\ CleanedUp
    /\ \E p \in WrittenTwice : p \notin DOMAIN vhist.fs0 /\ p \notin DOMAIN fs


(***************************************************************************)
(* fsutil.SafeJoin: containment of the verify copy steps                   *)
(***************************************************************************)

\* The paths that exist now and did not exist when Run was called.
NewPaths == {p \in DOMAIN fs : p \notin DOMAIN vhist.fs0}

\* C39: SafeJoin refuses every destination outside the workspace, a sibling
\* directory whose name begins with the workspace's name included, so no
\* verify copy step creates a path outside the workspace.
C39_CopiesStayInWorkspace ==
    \A p \in NewPaths : IsUnder(FsPath(WorkspaceDir), p)

\* The same for the destinations whose first component outside the workspace
\* does not begin with the workspace's name.
CopiesStayInWorkspaceUnlessSibling ==
    (\A k \in DOMAIN cfg.copy :
        ~HasPrefix(Abs(Join(WorkspaceDir, Clean(cfg.copy[k].to))), Abs(WorkspaceDir))
        \/ IsUnder(FsPath(WorkspaceDir), FsPath(Join(WorkspaceDir, Clean(cfg.copy[k].to))) \o <<"x">>))
    => C39_CopiesStayInWorkspace


(***************************************************************************)
(* verify.Run: Success and the results listed in the report                *)
(***************************************************************************)

\* A report was returned (of a failed audit or of a full run).
ReportReturned == out.done /\ out.err = "nil" /\ ~out.result.nil

\* C40: a report that says Success lists no failed result, neither among the
\* required tests nor among the partial tests.
C40_SuccessListsNoFailure ==
    (ReportReturned /\ out.result.success) =>
        /\ \A i \in DOMAIN out.result.tests : out.result.tests[i].passed
        /\ \A i \in DOMAIN out.result.partial : out.result.partial[i].passed

\* The half about the required tests.
SuccessListsNoFailedRequiredTest ==
    (ReportReturned /\ out.result.success) =>
        \A i \in DOMAIN out.result.tests : out.result.tests[i].passed

====
